---- MODULE Spec2Model ----
(***************************************************************************)
(* Content-based retrieval engine of movie_recommender.py: the catalog,    *)
(* the TF-IDF index built over it, the filter evaluator and the ranking.   *)
(*                                                                         *)
(* A Python str is a sequence of one-character strings, so that slicing    *)
(* (date[:4]), int(), str(), lower() and the regular expressions are       *)
(* computed and not assumed.  A float similarity is a fixed-point integer  *)
(* in thousandths.                                                         *)
(***************************************************************************)
EXTENDS Integers, Sequences, FiniteSets, TLC

VARIABLES movies, unique_movie_ids, vectorizer, tfidf_matrix, argsortTie,
          pc, call, response, threads, fetch, data_file

vars == <<movies, unique_movie_ids, vectorizer, tfidf_matrix, argsortTie,
          pc, call, response, threads, fetch, data_file>>

(***************************************************************************)
(* Bounds of the model.                                                    *)
(***************************************************************************)
MaxCatalog == 3
MaxN == 2
MaxPages == 2
MaxQuota == 1

(***************************************************************************)
(* Python values.                                                          *)
(***************************************************************************)
\* None where a str is expected: no str equals it (a str holds one-character strings)
None == <<"None">>

UpperChars == <<"A","B","C","D","E","F","G","H","I","J","K","L","M",
                "N","O","P","Q","R","S","T","U","V","W","X","Y","Z">>
LowerChars == <<"a","b","c","d","e","f","g","h","i","j","k","l","m",
                "n","o","p","q","r","s","t","u","v","w","x","y","z">>
DigitChars == <<"0","1","2","3","4","5","6","7","8","9">>

IsUpper(c) == \E i \in 1..26 : UpperChars[i] = c
IsLetter(c) == \E i \in 1..26 : LowerChars[i] = c \/ UpperChars[i] = c
IsDigit(c) == \E i \in 1..10 : DigitChars[i] = c
IsSpace(c) == c \in {" ", "\t", "\n"}
\* \w of the re module
IsWordChar(c) == IsLetter(c) \/ IsDigit(c) \/ c = "_"

LowerChar(c) == IF IsUpper(c)
                THEN LowerChars[CHOOSE i \in 1..26 : UpperChars[i] = c]
                ELSE c

\* str.lower()
StrLower(s) == [i \in 1..Len(s) |-> LowerChar(s[i])]

\* s[:k]
Prefix(s, k) == SubSeq(s, 1, IF Len(s) < k THEN Len(s) ELSE k)

DigitValue(c) == (CHOOSE i \in 1..10 : DigitChars[i] = c) - 1

RECURSIVE NatStr(_)
NatStr(k) == IF k < 10 THEN <<DigitChars[k + 1]>>
             ELSE NatStr(k \div 10) \o <<DigitChars[(k % 10) + 1]>>

\* str(k) for an int k
PyStr(k) == IF k < 0 THEN <<"-">> \o NatStr(0 - k) ELSE NatStr(k)

RECURSIVE LStrip(_)
LStrip(s) == IF s # <<>> /\ IsSpace(s[1]) THEN LStrip(Tail(s)) ELSE s

RECURSIVE RStrip(_)
RStrip(s) == IF s # <<>> /\ IsSpace(s[Len(s)])
             THEN RStrip(SubSeq(s, 1, Len(s) - 1)) ELSE s

\* the digits part of an int literal: digits, single underscores between them
IsDigitsLiteral(d) ==
    /\ d # <<>>
    /\ IsDigit(d[1]) /\ IsDigit(d[Len(d)])
    /\ \A i \in 1..Len(d) : IsDigit(d[i]) \/ d[i] = "_"
    /\ \A i \in 1..(Len(d) - 1) : ~(d[i] = "_" /\ d[i + 1] = "_")

RECURSIVE DigitsValue(_, _)
DigitsValue(d, acc) ==
    IF d = <<>> THEN acc
    ELSE IF d[1] = "_" THEN DigitsValue(Tail(d), acc)
    ELSE DigitsValue(Tail(d), 10 * acc + DigitValue(d[1]))

\* int(s): [ok |-> TRUE, val |-> k], or ok = FALSE where Python raises ValueError
PyInt(s) ==
    LET t == RStrip(LStrip(s))
        signed == t # <<>> /\ t[1] \in {"+", "-"}
        d == IF signed THEN Tail(t) ELSE t
    IN  IF IsDigitsLiteral(d)
        THEN [ok |-> TRUE,
              val |-> IF signed /\ t[1] = "-" THEN 0 - DigitsValue(d, 0)
                      ELSE DigitsValue(d, 0)]
        ELSE [ok |-> FALSE, val |-> 0]

\* dict.get(key) and dict.get(key, default), for str values
Get(d, k) == IF k \in DOMAIN d THEN d[k] ELSE None
GetOr(d, k, default) == IF k \in DOMAIN d THEN d[k] ELSE default

\* truth value of a str or None
Truthy(v) == v # None /\ v # <<>>

\* min(a, b)
Min(a, b) == IF a <= b THEN a ELSE b

(***************************************************************************)
(* Text: tokens, stop words, lemmas.                                       *)
(***************************************************************************)
\* the maximal runs of the positions i of s with keep[i]
RECURSIVE RunsFrom(_, _, _, _, _)
RunsFrom(s, keep, i, cur, acc) ==
    IF i > Len(s) THEN (IF cur = <<>> THEN acc ELSE Append(acc, cur))
    ELSE IF keep[i] THEN RunsFrom(s, keep, i + 1, Append(cur, s[i]), acc)
    ELSE RunsFrom(s, keep, i + 1, <<>>,
                  IF cur = <<>> THEN acc ELSE Append(acc, cur))

Runs(s, keep) == RunsFrom(s, keep, 1, <<>>, <<>>)

\* ' '.join(tokens)
RECURSIVE Join(_)
Join(tokens) ==
    IF tokens = <<>> THEN <<>>
    ELSE IF Len(tokens) = 1 THEN tokens[1]
    ELSE tokens[1] \o <<" ">> \o Join(Tail(tokens))

\* stopwords.words('english'), the words of it the model's texts use
StopWords == {
    <<"t","h","e">>, <<"a">>, <<"o","f">>, <<"i","n">>, <<"a","n","d">>,
    <<"f","r","o","m">>, <<"i","s">>, <<"t","o">>, <<"w","i","t","h">>,
    <<"c","a","n">> }

\* WordNetLemmatizer().lemmatize, on the words of the model's texts it changes
LemmaTable == {
    << <<"m","o","v","i","e","s">>, <<"m","o","v","i","e">> >>,
    << <<"g","a","m","e","s">>, <<"g","a","m","e">> >>,
    << <<"f","i","l","m","s">>, <<"f","i","l","m">> >>,
    << <<"s","h","o","w","s">>, <<"s","h","o","w">> >>,
    << <<"c","a","n","s">>, <<"c","a","n">> >> }

Lemmatize(token) ==
    IF \E e \in LemmaTable : e[1] = token
    THEN (CHOOSE e \in LemmaTable : e[1] = token)[2]
    ELSE token

\* word_tokenize on text that holds only word characters and whitespace
WordTokenize(text) == Runs(text, [i \in 1..Len(text) |-> ~IsSpace(text[i])])

\* re.sub(r'[^\w\s]', ' ', text)
SubSpecial(text) ==
    [i \in 1..Len(text) |->
        IF IsWordChar(text[i]) \/ IsSpace(text[i]) THEN text[i] ELSE " "]

\* re.sub(r'\d+', ' ', text): each maximal run of digits becomes one space
RECURSIVE SubDigits(_)
SubDigits(text) ==
    IF text = <<>> THEN <<>>
    ELSE IF IsDigit(text[1])
         THEN IF Len(text) > 1 /\ IsDigit(text[2])
              THEN SubDigits(Tail(text))
              ELSE <<" ">> \o SubDigits(Tail(text))
         ELSE <<text[1]>> \o SubDigits(Tail(text))

_preprocess_text(text) ==
    IF ~Truthy(text) THEN <<>>
    ELSE LET lowered == StrLower(text)
             cleaned == SubDigits(SubSpecial(lowered))
             kept == SelectSeq(WordTokenize(cleaned),
                               LAMBDA t : t \notin StopWords)
             lemmas == [i \in 1..Len(kept) |-> Lemmatize(kept[i])]
         IN  Join(lemmas)

(***************************************************************************)
(* TfidfVectorizer(max_features=5000) and cosine_similarity, in            *)
(* thousandths.                                                            *)
(***************************************************************************)
max_features == 5000

\* ln(k) in thousandths, k = 1..8
LnMilli == <<0, 693, 1099, 1386, 1609, 1792, 1946, 2079>>

\* the analyzer: lower-case, token_pattern (?u)\b\w\w+\b
Analyze(doc) ==
    LET s == StrLower(doc)
    IN  SelectSeq(Runs(s, [i \in 1..Len(s) |-> IsWordChar(s[i])]),
                  LAMBDA t : Len(t) >= 2)

Count(t, tokens) == Cardinality({i \in 1..Len(tokens) : tokens[i] = t})

RECURSIVE SumOver(_, _)
SumOver(S, f) ==
    IF S = {} THEN 0
    ELSE LET x == CHOOSE y \in S : TRUE
         IN  f[x] + SumOver(S \ {x}, f)

RECURSIVE IsqrtIn(_, _, _)
IsqrtIn(x, lo, hi) ==
    IF lo >= hi THEN lo
    ELSE LET mid == (lo + hi + 1) \div 2
         IN  IF mid * mid <= x THEN IsqrtIn(x, mid, hi)
             ELSE IsqrtIn(x, lo, mid - 1)

\* floor of the square root; the arguments stay below 46340^2
Isqrt(x) == IsqrtIn(x, 0, 46340)

\* normalize(norm='l2') of one row; a zero row stays zero
L2Normalize(row) ==
    LET norm == Isqrt(SumOver(DOMAIN row, [t \in DOMAIN row |-> row[t] * row[t]]))
    IN  IF norm = 0 THEN row
        ELSE [t \in DOMAIN row |-> (row[t] * 1000) \div norm]

\* fit: the vocabulary (the max_features most frequent terms) and the smoothed idf
Fit(documents) ==
    LET N == Len(documents)
        toks == [i \in 1..N |-> Analyze(documents[i])]
        terms == UNION {{toks[i][j] : j \in 1..Len(toks[i])} : i \in 1..N}
        tf == [t \in terms |->
                 SumOver(1..N, [i \in 1..N |-> Count(t, toks[i])])]
        vocabulary ==
            IF Cardinality(terms) <= max_features THEN terms
            ELSE CHOOSE V \in SUBSET terms :
                    /\ Cardinality(V) = max_features
                    /\ \A t \in V, u \in terms \ V : tf[t] >= tf[u]
        df == [t \in vocabulary |->
                 Cardinality({i \in 1..N : Count(t, toks[i]) > 0})]
    IN  [vocabulary |-> vocabulary,
         idf |-> [t \in vocabulary |->
                     LnMilli[1 + N] - LnMilli[1 + df[t]] + 1000]]

\* transform of one document by a fitted vectorizer: tf * idf, L2-normalized
Transform(vec, doc) ==
    LET toks == Analyze(doc)
    IN  L2Normalize([t \in vec.vocabulary |-> Count(t, toks) * vec.idf[t]])

\* cosine_similarity(query_vec, tfidf_matrix).flatten(): both sides are normalized
\* again, then the dot products are taken
CosineSimilarity(query_vec, matrix) ==
    LET q == L2Normalize(query_vec)
    IN  [i \in 1..Len(matrix) |->
            LET r == L2Normalize(matrix[i])
            IN  SumOver(DOMAIN q, [t \in DOMAIN q |-> q[t] * r[t]]) \div 1000]

(***************************************************************************)
(* The catalog.  An entry is a dict: a record whose keys may be missing.   *)
(***************************************************************************)
Movie == <<"m","o","v","i","e">>
Tv == <<"t","v">>
En == <<"e","n">>
Hi == <<"h","i">>
Ta == <<"t","a">>
Te == <<"t","e">>
Ml == <<"m","l">>
Kn == <<"k","n">>

Doc_Batman == <<"B","a","t","m","a","n",":"," ","T","h","e"," ","D","a","r","k"," ","K","n","i","g","h","t"," ","(","a","c","t","i","o","n",")">>
Doc_Dilwale == <<"D","i","l","w","a","l","e"," ","h","i","n","d","i"," ","r","o","m","a","n","c","e">>
Doc_SacredGames == <<"S","a","c","r","e","d"," ","G","a","m","e","s"," ","h","i","n","d","i"," ","w","e","b"," ","s","e","r","i","e","s">>
Doc_Kabali == <<"K","a","b","a","l","i"," ","t","a","m","i","l"," ","a","c","t","i","o","n"," ","m","o","v","i","e","s"," ","2","0","1","6">>

\* the entries a catalog file is drawn from: a film with a release date, a second
\* one, a show that has only a first-air date, an entry with an empty release date
\* and an unparsable first-air date, and a film with the document of the second
\* (every query scores the two alike) and a year below 1000
Pool == <<
    [id |-> 155, title |-> <<"B","a","t","m","a","n">>, overview |-> <<>>,
     poster_path |-> <<"/","b">>,
     release_date |-> <<"1","9","9","9","-","0","3","-","3","1">>,
     genres |-> << <<"A","c","t","i","o","n">>, <<"D","r","a","m","a">> >>,
     language |-> En, content_type |-> Movie, document |-> Doc_Batman],
    [id |-> 19404, title |-> <<"D","i","l","w","a","l","e">>, overview |-> <<>>,
     poster_path |-> <<"/","d">>,
     release_date |-> <<"2","0","1","5","-","1","2","-","1","8">>,
     genres |-> << <<"R","o","m","a","n","c","e">>, <<"A","c","t","i","o","n">> >>,
     language |-> Hi, content_type |-> Movie, document |-> Doc_Dilwale],
    [id |-> 79352, title |-> <<"S","a","c","r","e","d">>, overview |-> <<>>,
     poster_path |-> <<"/","s">>,
     first_air_date |-> <<"2","0","1","8","-","0","7","-","0","6">>,
     genres |-> << <<"D","r","a","m","a">> >>,
     language |-> Hi, content_type |-> Tv, document |-> Doc_SacredGames],
    [id |-> 12, title |-> <<"K","a","b","a","l","i">>, overview |-> <<>>,
     poster_path |-> None,
     release_date |-> <<>>, first_air_date |-> <<"T","B","A">>,
     genres |-> << <<"A","c","t","i","o","n">> >>,
     language |-> Ta, content_type |-> Movie, document |-> Doc_Kabali],
    [id |-> 7, title |-> <<"D","i","l","w","a","l","e">>, overview |-> <<>>,
     poster_path |-> None,
     release_date |-> <<"0","9","9","9","-","0","1","-","0","1">>,
     genres |-> << <<"R","o","m","a","n","c","e">> >>,
     language |-> Hi, content_type |-> Movie, document |-> Doc_Dilwale] >>

\* the entries of Pool at the positions S, in Pool's order
RECURSIVE Pick(_, _)
Pick(S, i) ==
    IF i > Len(Pool) THEN <<>>
    ELSE IF i \in S THEN <<Pool[i]>> \o Pick(S, i + 1)
    ELSE Pick(S, i + 1)

Catalogs == {Pick(S, 1) : S \in {T \in SUBSET (1..Len(Pool)) :
                                     Cardinality(T) <= MaxCatalog}}

(***************************************************************************)
(* _apply_filters.  A filter set is a dict; filters.language is a str      *)
(* ([str |-> code]) or a list of str ([list |-> codes]).                   *)
(***************************************************************************)
\* lines 1113-1118: the first four characters of the date the filters read
YearStr(movie) ==
    IF Truthy(Get(movie, "release_date")) THEN Prefix(movie.release_date, 4)
    ELSE IF Truthy(Get(movie, "first_air_date")) THEN Prefix(movie.first_air_date, 4)
    ELSE <<>>

\* lines 1120-1121
YearInclude(movie, filters) == YearStr(movie) = PyStr(filters.year)

\* lines 1125-1126
GenreInclude(movie, filters) ==
    LET genres == GetOr(movie, "genres", <<>>)
    IN  \E i \in 1..Len(genres) : StrLower(genres[i]) = StrLower(filters.genre)

\* lines 1130-1131: movie.get('language') != filters['language'], a str never
\* equals a list
LanguageInclude(movie, filters) ==
    /\ "str" \in DOMAIN filters.language
    /\ Get(movie, "language") = filters.language.str

\* lines 1135-1136
ContentTypeInclude(movie, filters) ==
    Get(movie, "content_type") = filters.content_type

\* lines 1141-1151: year = 0 unless int() of the date's first four characters succeeds
PeriodYear(movie) ==
    IF Truthy(Get(movie, "release_date"))
    THEN PyInt(Prefix(movie.release_date, 4)).val
    ELSE IF Truthy(Get(movie, "first_air_date"))
    THEN PyInt(Prefix(movie.first_air_date, 4)).val
    ELSE 0

\* lines 1140, 1153-1154
TimePeriodInclude(movie, filters) ==
    LET start_year == filters.time_period[1]
        end_year == filters.time_period[2]
        year == PeriodYear(movie)
    IN  start_year <= year /\ year <= end_year

\* the body of the loop: include stays True through every filter that is present
Include(movie, filters) ==
    /\ "year" \in DOMAIN filters => YearInclude(movie, filters)
    /\ "genre" \in DOMAIN filters => GenreInclude(movie, filters)
    /\ "language" \in DOMAIN filters => LanguageInclude(movie, filters)
    /\ "content_type" \in DOMAIN filters => ContentTypeInclude(movie, filters)
    /\ "time_period" \in DOMAIN filters => TimePeriodInclude(movie, filters)

\* the positions (from 1) of the entries included, in catalog order
_apply_filters(catalog, filters) ==
    SelectSeq([i \in 1..Len(catalog) |-> i],
              LAMBDA i : Include(catalog[i], filters))

(***************************************************************************)
(* recommend_movies.                                                       *)
(***************************************************************************)
Range(s) == {s[i] : i \in 1..Len(s)}

\* lines 1081-1083: the scores of the positions outside filtered_indices become 0
MaskScores(scores, filtered_indices) ==
    [i \in 1..Len(scores) |->
        IF i \in Range(filtered_indices) THEN scores[i] ELSE 0]

\* lines 1075-1083: `if filters:` and `if filtered_indices:` are the truth values
\* of a dict and of a list
ApplyMask(catalog, scores, filters) ==
    IF DOMAIN filters # {}
    THEN LET filtered_indices == _apply_filters(catalog, filters)
         IN  IF filtered_indices # <<>>
             THEN MaskScores(scores, filtered_indices)
             ELSE scores
    ELSE scores

\* ndarray.argsort(): the positions in ascending order of score.  The default sort
\* is not stable: positions of equal score come in an order the library does not
\* specify, here the order tie gives them
ArgSort(scores, tie) ==
    LET before(i, j) == \/ scores[i] < scores[j]
                        \/ scores[i] = scores[j] /\ tie[i] < tie[j]
        rank(i) == 1 + Cardinality({j \in 1..Len(scores) : before(j, i)})
    IN  [k \in 1..Len(scores) |-> CHOOSE i \in 1..Len(scores) : rank(i) = k]

\* s[-n:]
SliceLast(s, n) ==
    LET L == Len(s)
        k == 0 - n
        start == IF k >= 0 THEN (IF k > L THEN L ELSE k)
                 ELSE (IF L + k < 0 THEN 0 ELSE L + k)
    IN  SubSeq(s, start + 1, L)

\* s[::-1]
Reverse(s) == [i \in 1..Len(s) |-> s[Len(s) + 1 - i]]

\* TopIndices with the slice one element too long
TopIndicesOneMore(sorted, n) == Reverse(SliceLast(sorted, n + 1))

\* TopIndices without the reversal
TopIndicesAscending(sorted, n) == SliceLast(sorted, n)

\* line 1086
TopIndices(sorted, n) == Reverse(SliceLast(sorted, n))

\* lines 1093-1101
Recommendation(movie, score) ==
    [id |-> movie.id,
     title |-> movie.title,
     overview |-> movie.overview,
     poster_path |-> movie.poster_path,
     release_date |-> GetOr(movie, "release_date",
                            GetOr(movie, "first_air_date", <<>>)),
     similarity_score |-> score,
     content_type |-> GetOr(movie, "content_type", Movie)]

\* lines 1066-1083: the scores the selection reads
MaskedScores(query, filters) ==
    LET processed_query == _preprocess_text(query)
        query_vec == Transform(vectorizer, processed_query)
        cosine_similarities == CosineSimilarity(query_vec, tfidf_matrix)
    IN  ApplyMask(movies, cosine_similarities, filters)

\* Selected keeping the selected entries whose score is zero
SelectedKeepZero(query, n, filters) ==
    LET cosine_similarities == MaskedScores(query, filters)
    IN  [scores |-> cosine_similarities,
         kept |-> TopIndices(ArgSort(cosine_similarities, argsortTie), n)]

\* lines 1085-1091: the scores and the catalog positions the loop turns into
\* results, best first
Selected(query, n, filters) ==
    LET cosine_similarities == MaskedScores(query, filters)
        top_indices == TopIndices(ArgSort(cosine_similarities, argsortTie), n)
    IN  [scores |-> cosine_similarities,
         kept |-> SelectSeq(top_indices, LAMBDA idx : cosine_similarities[idx] > 0)]

\* lines 1089-1101: one record per selected position
Recommendations(selected) ==
    [k \in 1..Len(selected.kept) |->
        Recommendation(movies[selected.kept[k]],
                       selected.scores[selected.kept[k]])]

\* lines 1063-1103, on a catalog whose entries all have the subscripted keys
recommend_movies(query, n, filters) == Recommendations(Selected(query, n, filters))

\* lines 1094-1097: the keys the loop reads by subscript; the others are read
\* with .get and a default
SubscriptedKeys == {"id", "title", "overview", "poster_path"}

\* lines 1063-1103 on any catalog: movie['title'] and the like raise KeyError on
\* an entry that lacks the key, and nothing catches it in recommend_movies
RecommendMoviesOutcome(query, n, filters) ==
    LET selected == Selected(query, n, filters)
    IN  IF \E k \in 1..Len(selected.kept) :
               ~(SubscriptedKeys \subseteq DOMAIN movies[selected.kept[k]])
        THEN [kind |-> "KeyError"]
        ELSE [kind |-> "recommendations", value |-> Recommendations(selected)]

(***************************************************************************)
(* extract_keywords_from_query.                                            *)
(***************************************************************************)
\* position i of text holds a word character; positions outside text hold none
IsWordAt(text, i) == i >= 1 /\ i <= Len(text) /\ IsWordChar(text[i])

\* \b between the positions i and i + 1 of text (i = 0 is the start)
WordBoundary(text, i) == IsWordAt(text, i) # IsWordAt(text, i + 1)

\* r'\b' + word + r'\b' matches text at position p
WordMatchAt(word, text, p) ==
    /\ p + Len(word) - 1 <= Len(text)
    /\ SubSeq(text, p, p + Len(word) - 1) = word
    /\ WordBoundary(text, p - 1)
    /\ WordBoundary(text, p + Len(word) - 1)

\* re.search(r'\b' + word + r'\b', text) finds a match
SearchWord(word, text) == \E p \in 1..Len(text) : WordMatchAt(word, text, p)

\* line 1166: r'\b(19\d{2}|20\d{2})\b' matches text at position p
YearMatchAt(text, p) ==
    /\ p + 3 <= Len(text)
    /\ \/ text[p] = "1" /\ text[p + 1] = "9"
       \/ text[p] = "2" /\ text[p + 1] = "0"
    /\ IsDigit(text[p + 2]) /\ IsDigit(text[p + 3])
    /\ WordBoundary(text, p - 1)
    /\ WordBoundary(text, p + 3)

\* the year pattern without its \b on either side
ExtractYearAnywhere(query) ==
    LET at == {p \in 1..(Len(query) - 3) :
                  /\ \/ query[p] = "1" /\ query[p + 1] = "9"
                     \/ query[p] = "2" /\ query[p + 1] = "0"
                  /\ IsDigit(query[p + 2]) /\ IsDigit(query[p + 3])}
    IN  IF at = {} THEN <<>>
        ELSE LET p == CHOOSE q \in at : \A r \in at : q <= r
             IN  "year" :> PyInt(SubSeq(query, p, p + 3)).val

\* lines 1194-1197: re.search takes the leftmost match; int() of its text
ExtractYear(query) ==
    LET at == {p \in 1..Len(query) : YearMatchAt(query, p)}
    IN  IF at = {} THEN <<>>
        ELSE LET p == CHOOSE q \in at : \A r \in at : q <= r
             IN  "year" :> PyInt(SubSeq(query, p, p + 3)).val

\* lines 1167-1168
genre_keywords == <<
    <<"a","c","t","i","o","n">>, <<"c","o","m","e","d","y">>, <<"d","r","a","m","a">>,
    <<"h","o","r","r","o","r">>, <<"s","c","i","-","f","i">>, <<"r","o","m","a","n","c","e">>,
    <<"t","h","r","i","l","l","e","r">>, <<"a","d","v","e","n","t","u","r","e">>,
    <<"f","a","n","t","a","s","y">>, <<"a","n","i","m","a","t","i","o","n">>,
    <<"d","o","c","u","m","e","n","t","a","r","y">>, <<"b","i","o","g","r","a","p","h","y">> >>

\* lines 1169-1179, in the dict's order
region_keywords == <<
    << <<"h","o","l","l","y","w","o","o","d">>, [str |-> En] >>,
    << <<"b","o","l","l","y","w","o","o","d">>, [str |-> Hi] >>,
    << <<"h","i","n","d","i">>, [str |-> Hi] >>,
    << <<"t","a","m","i","l">>, [str |-> Ta] >>,
    << <<"t","e","l","u","g","u">>, [str |-> Te] >>,
    << <<"m","a","l","a","y","a","l","a","m">>, [str |-> Ml] >>,
    << <<"k","a","n","n","a","d","a">>, [str |-> Kn] >>,
    << <<"s","o","u","t","h"," ","i","n","d","i","a","n">>, [list |-> <<Ta, Te, Ml, Kn>>] >>,
    << <<"i","n","d","i","a","n">>, [list |-> <<Hi, Ta, Te, Ml, Kn>>] >> >>

\* lines 1180-1189, in the dict's order
content_type_keywords == <<
    << <<"m","o","v","i","e">>, Movie >>,
    << <<"f","i","l","m">>, Movie >>,
    << <<"w","e","b"," ","s","e","r","i","e","s">>, Tv >>,
    << <<"t","v"," ","s","e","r","i","e","s">>, Tv >>,
    << <<"s","h","o","w">>, Tv >>,
    << <<"t","e","l","e","v","i","s","i","o","n">>, Tv >>,
    << <<"o","t","t">>, Tv >>,
    << <<"s","t","r","e","a","m","i","n","g">>, Tv >> >>

\* lines 1218-1226, in the dict's order
feeling_mapping == <<
    << <<"h","a","p","p","y">>,
       << <<"c","o","m","e","d","y">>,
          <<"f","e","e","l","-","g","o","o","d">>,
          <<"u","p","l","i","f","t","i","n","g">> >> >>,
    << <<"s","a","d">>,
       << <<"d","r","a","m","a">>,
          <<"t","r","a","g","e","d","y">>,
          <<"e","m","o","t","i","o","n","a","l">> >> >>,
    << <<"s","c","a","r","y">>,
       << <<"h","o","r","r","o","r">>,
          <<"t","h","r","i","l","l","e","r">>,
          <<"s","u","s","p","e","n","s","e">> >> >>,
    << <<"e","x","c","i","t","i","n","g">>,
       << <<"a","c","t","i","o","n">>,
          <<"a","d","v","e","n","t","u","r","e">>,
          <<"t","h","r","i","l","l","e","r">> >> >>,
    << <<"t","h","o","u","g","h","t","f","u","l">>,
       << <<"d","r","a","m","a">>,
          <<"p","h","i","l","o","s","o","p","h","i","c","a","l">>,
          <<"t","h","o","u","g","h","t","-","p","r","o","v","o","k","i","n","g">> >> >>,
    << <<"r","o","m","a","n","t","i","c">>,
       << <<"r","o","m","a","n","c","e">>,
          <<"l","o","v","e"," ","s","t","o","r","y">>,
          <<"r","o","m","a","n","t","i","c"," ","c","o","m","e","d","y">> >> >> >>

\* the first position of keys whose word is found in text, 0 when none is:
\* the loops of lines 1200-1215 and 1228-1232 break at the first match
FirstFound(keys, text) ==
    LET found == {i \in 1..Len(keys) : SearchWord(keys[i], text)}
    IN  IF found = {} THEN 0 ELSE CHOOSE i \in found : \A j \in found : i <= j

\* the genre keyword that stands first in the text, not first in the list
ExtractGenreLeftmost(query) ==
    LET text == StrLower(query)
        at == {<<p, i>> \in (1..Len(text)) \X (1..Len(genre_keywords)) :
                  WordMatchAt(genre_keywords[i], text, p)}
    IN  IF at = {} THEN <<>>
        ELSE LET m == CHOOSE a \in at : \A b \in at : a[1] <= b[1]
             IN  "genre" :> genre_keywords[m[2]]

\* lines 1199-1203
ExtractGenre(query) ==
    LET i == FirstFound(genre_keywords, StrLower(query))
    IN  IF i = 0 THEN <<>> ELSE "genre" :> genre_keywords[i]

\* the region loop running through the mapping from its last entry to its first
ExtractLanguageLastEntryFirst(query) ==
    LET names == [k \in 1..Len(region_keywords) |->
                     region_keywords[Len(region_keywords) + 1 - k][1]]
        i == FirstFound(names, StrLower(query))
    IN  IF i = 0 THEN <<>>
        ELSE "language" :> region_keywords[Len(region_keywords) + 1 - i][2]

\* lines 1205-1209
ExtractLanguage(query) ==
    LET i == FirstFound([k \in 1..Len(region_keywords) |-> region_keywords[k][1]],
                        StrLower(query))
    IN  IF i = 0 THEN <<>> ELSE "language" :> region_keywords[i][2]

\* the content-type loop running through the mapping from its last entry to its first
ExtractContentTypeLastEntryFirst(query) ==
    LET names == [k \in 1..Len(content_type_keywords) |->
                     content_type_keywords[Len(content_type_keywords) + 1 - k][1]]
        i == FirstFound(names, StrLower(query))
    IN  IF i = 0 THEN <<>>
        ELSE "content_type" :>
                 content_type_keywords[Len(content_type_keywords) + 1 - i][2]

\* lines 1211-1215
ExtractContentType(query) ==
    LET i == FirstFound([k \in 1..Len(content_type_keywords) |->
                            content_type_keywords[k][1]], StrLower(query))
    IN  IF i = 0 THEN <<>> ELSE "content_type" :> content_type_keywords[i][2]

\* a mood pass that hands back the lower-cased text it searched
ExpandMoodLowered(query) ==
    LET i == FirstFound([k \in 1..Len(feeling_mapping) |-> feeling_mapping[k][1]],
                        StrLower(query))
    IN  IF i = 0 THEN StrLower(query)
        ELSE query \o <<" ">> \o Join(feeling_mapping[i][2])

\* lines 1228-1232: the query with the terms of the first mood found appended
ExpandMood(query) ==
    LET i == FirstFound([k \in 1..Len(feeling_mapping) |-> feeling_mapping[k][1]],
                        StrLower(query))
    IN  IF i = 0 THEN query
        ELSE query \o <<" ">> \o Join(feeling_mapping[i][2])

\* lines 1191-1215: the filters, every pass reading the query as it was given
ExtractFilters(query) ==
    ExtractYear(query) @@ ExtractGenre(query) @@ ExtractLanguage(query)
        @@ ExtractContentType(query)

\* the filter passes reading the query after the mood pass has extended it
ExtractAfterExpansion(query) ==
    [query |-> ExpandMood(query), filters |-> ExtractFilters(ExpandMood(query))]

\* lines 1163-1234: returns (query, filters)
extract_keywords_from_query(query) ==
    [query |-> ExpandMood(query), filters |-> ExtractFilters(query)]

(***************************************************************************)
(* The endpoint /api/recommend.                                            *)
(***************************************************************************)
\* line 1241: the default of n
DefaultN == 10

\* line 1250
OverrideKeys == {"year", "genre", "language", "content_type"}

\* a merge in which a value interpretation derived stands against the request's
OverrideFiltersInterpretedFirst(filters, data) ==
    LET explicit == DOMAIN data \cap OverrideKeys
    IN  [k \in DOMAIN filters \cup explicit |->
            IF k \in DOMAIN filters THEN filters[k] ELSE data[k]]

\* lines 1249-1252: filters[filter_key] = data[filter_key] for the keys in data
OverrideFilters(filters, data) ==
    LET explicit == DOMAIN data \cap OverrideKeys
    IN  [k \in DOMAIN filters \cup explicit |->
            IF k \in explicit THEN data[k] ELSE filters[k]]

\* lines 1238-1262
recommend(data) ==
    LET query == GetOr(data, "query", <<>>)
        n == GetOr(data, "n", DefaultN)
    IN  IF ~Truthy(query) THEN [kind |-> "error", status |-> 400]
        ELSE LET extracted == extract_keywords_from_query(query)
                 filters == OverrideFilters(extracted.filters, data)
             IN  [kind |-> "recommend",
                  original_query |-> query,
                  enhanced_query |-> extracted.query,
                  filters_applied |-> filters,
                  recommendations |->
                      recommend_movies(extracted.query, n, filters)]

(***************************************************************************)
(* The GET endpoints.                                                      *)
(***************************************************************************)
\* lines 1265-1270: the first entry with the id, or 404
get_movie(movie_id) ==
    LET found == {i \in 1..Len(movies) : movies[i].id = movie_id}
    IN  IF found = {} THEN [kind |-> "error", status |-> 404]
        ELSE [kind |-> "movie",
              value |-> movies[CHOOSE i \in found : \A j \in found : i <= j]]

\* the characters in the order of their code points
CodeOrder == <<" ", "-", "/">> \o DigitChars \o UpperChars \o <<"_">> \o LowerChars

Ord(c) == CHOOSE i \in 1..Len(CodeOrder) : CodeOrder[i] = c

\* a < b for two str
RECURSIVE StrLess(_, _)
StrLess(a, b) ==
    IF a = <<>> THEN b # <<>>
    ELSE IF b = <<>> THEN FALSE
    ELSE IF a[1] = b[1] THEN StrLess(Tail(a), Tail(b))
    ELSE Ord(a[1]) < Ord(b[1])

\* sorted(list(S)), before holding the pairs <<x, y>> of S with x ahead of y
Sorted(S, before) ==
    [k \in 1..Cardinality(S) |->
        CHOOSE x \in S : Cardinality({y \in S : <<y, x>> \in before}) = k - 1]

\* lines 1286-1300 and 1348-1360: the year of an entry and whether it is listed
\* (`if year:` drops None and 0)
ListedYear(movie) ==
    LET of(date) == LET r == PyInt(Prefix(date, 4))
                    IN  [listed |-> r.ok /\ r.val # 0, year |-> r.val]
    IN  IF Truthy(Get(movie, "release_date")) THEN of(movie.release_date)
        ELSE IF Truthy(Get(movie, "first_air_date")) THEN of(movie.first_air_date)
        ELSE [listed |-> FALSE, year |-> 0]

\* lines 1307-1316: language_names.get(code, code)
LanguageName(code) ==
    CASE code = En -> <<"E","n","g","l","i","s","h">>
      [] code = Hi -> <<"H","i","n","d","i">>
      [] code = Ta -> <<"T","a","m","i","l">>
      [] code = Te -> <<"T","e","l","u","g","u">>
      [] code = Ml -> <<"M","a","l","a","y","a","l","a","m">>
      [] code = Kn -> <<"K","a","n","n","a","d","a">>
      [] OTHER -> code

\* the genres of all entries
CatalogGenres ==
    UNION {Range(GetOr(movies[i], "genres", <<>>)) : i \in 1..Len(movies)}

\* lines 1273-1323
get_filters ==
    LET languages == {movies[i].language :
                         i \in {j \in 1..Len(movies) : "language" \in DOMAIN movies[j]}}
        years == {ListedYear(movies[i]).year :
                     i \in {j \in 1..Len(movies) : ListedYear(movies[j]).listed}}
        content_types == {movies[i].content_type :
                             i \in {j \in 1..Len(movies) :
                                       "content_type" \in DOMAIN movies[j]}}
        languages_with_names ==
            {[code |-> code, name |-> LanguageName(code)] : code \in languages}
    IN  [kind |-> "filters",
         languages |->
             Sorted(languages_with_names,
                    {p \in languages_with_names \X languages_with_names :
                        StrLess(p[1].name, p[2].name)}),
         genres |-> Sorted(CatalogGenres,
                           {p \in CatalogGenres \X CatalogGenres : StrLess(p[1], p[2])}),
         years |-> Sorted(years, {p \in years \X years : p[1] < p[2]}),
         content_types |->
             Sorted(content_types,
                    {p \in content_types \X content_types : StrLess(p[1], p[2])})]

\* line 1374: the cut [:15]
TopGenres == 15

\* the entries of the catalog whose key has one of the values
Having(key, values) == {i \in 1..Len(movies) : Get(movies[i], key) \in values}

\* lines 1326-1376
get_stats ==
    LET mentions == UNION {{<<i, j>> : j \in 1..Len(GetOr(movies[i], "genres", <<>>))} :
                              i \in 1..Len(movies)}
        genre_counts == [g \in CatalogGenres |->
                            Cardinality({m \in mentions : movies[m[1]].genres[m[2]] = g})]
        first(g) == CHOOSE m \in mentions :
                        /\ movies[m[1]].genres[m[2]] = g
                        /\ \A o \in mentions :
                              movies[o[1]].genres[o[2]] = g =>
                                  m[1] < o[1] \/ (m[1] = o[1] /\ m[2] <= o[2])
        before(g, h) ==
            \/ genre_counts[g] > genre_counts[h]
            \/ /\ genre_counts[g] = genre_counts[h]
               /\ g # h
               /\ \/ first(g)[1] < first(h)[1]
                  \/ first(g)[1] = first(h)[1] /\ first(g)[2] < first(h)[2]
        top == {g \in CatalogGenres :
                   Cardinality({h \in CatalogGenres : before(h, g)}) < TopGenres}
        years == {ListedYear(movies[i]).year :
                     i \in {j \in 1..Len(movies) : ListedYear(movies[j]).listed}}
    IN  [kind |-> "stats",
         total_count |-> Len(movies),
         content_type_distribution |->
             [movies |-> Cardinality(Having("content_type", {Movie})),
              tv_shows |-> Cardinality(Having("content_type", {Tv}))],
         region_distribution |->
             [hollywood |-> Cardinality(Having("content_type", {Movie})
                                            \cap Having("language", {En})),
              bollywood |-> Cardinality(Having("language", {Hi})),
              south_indian |-> Cardinality(Having("language", {Ta, Te, Ml, Kn}))],
         top_genres |-> [g \in top |-> genre_counts[g]],
         year_distribution |->
             [y \in years |->
                 Cardinality({i \in 1..Len(movies) :
                                 /\ ListedYear(movies[i]).listed
                                 /\ ListedYear(movies[i]).year = y})]]

(***************************************************************************)
(* The inputs of the operations.                                           *)
(***************************************************************************)
Q_HindiWebSeries == <<"h","i","n","d","i"," ","w","e","b"," ","s","e","r","i","e","s">>
Q_BatmanMovies == <<"T","h","e"," ","B","a","t","m","a","n"," ","m","o","v","i","e","s">>
Q_Action == <<"a","c","t","i","o","n">>
Q_StopWordsOnly == <<"2","0","1","5"," ","o","f"," ","t","h","e">>

\* texts handed to _preprocess_text: a missing and an empty one, upper case with
\* digits, punctuation with an underscore, a plural whose lemma is a stop word
T_Batman2 == <<"T","h","e"," ","B","a","t","m","a","n"," ","2">>
T_SnakeCase == <<"s","c","i","-","f","i",","," ","s","p","y","_","f","i","l","m","s","!">>
T_TinCans == <<"T","i","n"," ","c","a","n","s">>

Texts == {None, <<>>, T_Batman2, T_SnakeCase, T_TinCans, Q_StopWordsOnly}

Queries == {Q_HindiWebSeries, Q_BatmanMovies, Q_Action, Q_StopWordsOnly}

Ns == (0 - 1)..MaxN

YearValues == {1999, 2018, 999}
GenreValues == {<<"A","C","T","I","O","N">>, <<"r","o","m","a","n","c","e">>}
LanguageValues == {[str |-> Hi], [list |-> <<Ta, Te, Ml, Kn>>],
                   [list |-> <<Hi, Ta, Te, Ml, Kn>>]}
ContentTypeValues == {Movie, Tv}
TimePeriodValues == {<<1990, 2016>>, <<0 - 1, 1>>}

\* a key that is absent, or present with one of the values
Opt(key, values) == {<<>>} \cup {key :> v : v \in values}

FilterSets ==
    {y @@ g @@ l @@ c @@ t :
        y \in Opt("year", YearValues), g \in Opt("genre", GenreValues),
        l \in Opt("language", LanguageValues),
        c \in Opt("content_type", ContentTypeValues),
        t \in Opt("time_period", TimePeriodValues)}

\* the filter sets a ranking is asked with: at most one key, and three pairs
RankFilterSets ==
    {f \in FilterSets : Cardinality(DOMAIN f) <= 1}
    \cup {("year" :> 1999) @@ ("language" :> [str |-> Hi]),
          ("genre" :> <<"A","C","T","I","O","N">>) @@ ("content_type" :> Movie),
          ("language" :> [str |-> Hi]) @@ ("content_type" :> Tv)}

\* the raw queries the interpreter and the recommend endpoint are given
RQ_BestAction1999 == <<"b","e","s","t"," ","a","c","t","i","o","n"," ","m","o","v","i","e","s"," ","1","9","9","9">>
RQ_TamilMovie2015 == <<"t","a","m","i","l"," ","m","o","v","i","e"," ","f","r","o","m"," ","2","0","1","5">>
RQ_SomethingScary == <<"s","o","m","e","t","h","i","n","g"," ","s","c","a","r","y">>
RQ_DramaAction == <<"d","r","a","m","a"," ","a","c","t","i","o","n">>
RQ_SouthIndianFilm == <<"s","o","u","t","h"," ","i","n","d","i","a","n"," ","f","i","l","m">>
RQ_IndianWebSeries == <<"i","n","d","i","a","n"," ","w","e","b"," ","s","e","r","i","e","s">>
RQ_ShowOrFilm == <<"a"," ","t","v"," ","s","h","o","w"," ","o","r"," ","f","i","l","m">>
RQ_InceptionNolan == <<"I","n","c","e","p","t","i","o","n"," ","N","o","l","a","n">>
RQ_Room12015 == <<"r","o","o","m"," ","1","2","0","1","5"," ","i","n"," ","2","0","0","1"," ","o","r"," ","1","9","9","9">>
RQ_HindiComedyShow == <<"H","i","n","d","i"," ","C","O","M","E","D","Y"," ","S","h","o","w">>
RQ_HappySadRomantic == <<"s","a","d"," ","h","a","p","p","y"," ","r","o","m","a","n","t","i","c">>
RQ_SciFiFilms == <<"s","c","i","-","f","i"," ","f","i","l","m","s">>
RQ_Dramatic == <<"d","r","a","m","a","t","i","c"," ","s","h","o","w","d","o","w","n"," ","1","8","9","9">>
RQ_BollywoodHollywood == <<"b","o","l","l","y","w","o","o","d"," ","o","r"," ","h","o","l","l","y","w","o","o","d">>
RQ_ScaryHorror2020 == <<"s","c","a","r","y"," ","h","o","r","r","o","r"," ","2","0","2","0">>
RQ_Empty == <<>>

RawQueries == {RQ_BestAction1999, RQ_TamilMovie2015, RQ_SomethingScary,
               RQ_DramaAction, RQ_SouthIndianFilm, RQ_IndianWebSeries,
               RQ_ShowOrFilm, RQ_InceptionNolan, RQ_Room12015,
               RQ_HindiComedyShow, RQ_HappySadRomantic, RQ_SciFiFilms,
               RQ_Dramatic, RQ_BollywoodHollywood, RQ_ScaryHorror2020,
               RQ_Empty}

\* the queries of the requests to /api/recommend
RequestQueries == {RQ_BestAction1999, RQ_TamilMovie2015, RQ_SomethingScary, RQ_Empty}

\* the filter keys a request to /api/recommend carries
ExplicitFilterSets ==
    {<<>>,
     "year" :> 2018,
     ("genre" :> <<"A","C","T","I","O","N">>) @@ ("language" :> [str |-> Hi]),
     ("year" :> 1999) @@ ("content_type" :> Tv)}

\* the JSON bodies of the requests: query, optional n, optional filter keys
Requests ==
    {("query" :> q) @@ n @@ e :
        q \in RequestQueries, n \in Opt("n", {1, MaxN}), e \in ExplicitFilterSets}

\* the requests the threads serve
RQ_Dilwale == <<"d","i","l","w","a","l","e">>

ThreadRequests ==
    {[op |-> "recommend", data |-> "query" :> RQ_Dilwale],
     [op |-> "recommend", data |-> ("query" :> RQ_BestAction1999) @@ ("n" :> MaxN)],
     [op |-> "recommend", data |-> "query" :> RQ_Empty],
     [op |-> "get_movie", movie_id |-> 155],
     [op |-> "get_movie", movie_id |-> 1],
     [op |-> "get_filters"],
     [op |-> "get_stats"]}

\* the orders argsort can give N positions of equal score
TieOrders(N) == {f \in [1..N -> 1..N] : \A x, y \in 1..N : f[x] = f[y] => x = y}

(***************************************************************************)
(* The state machine.                                                      *)
(***************************************************************************)
NoCall == [op |-> "none"]
NoResponse == [kind |-> "none"]

\* the data file movies_data.json: absent, or the catalog it holds
NoFile == [exists |-> FALSE, movies |-> <<>>]
File(catalog) == [exists |-> TRUE, movies |-> catalog]

\* the position of the acquisition while none runs
NoFetch == [plan |-> <<>>, page |-> 0, at |-> "idle", results |-> <<>>,
            total_pages |-> 0, count |-> 0, last |-> "none"]

\* the request threads of the server (app.run serves each request in a thread)
Threads == {"t1", "t2"}

\* a thread that serves no request
Idle == [pc |-> "idle"]

\* __init__, lines 40-44
Init ==
    /\ movies = <<>>
    /\ unique_movie_ids = {}
    /\ vectorizer = None
    /\ tfidf_matrix = None
    /\ argsortTie = <<>>
    /\ pc = "init"
    /\ call = NoCall
    /\ response = NoResponse
    /\ threads = [t \in Threads |-> Idle]
    /\ fetch = NoFetch
    /\ data_file = NoFile

\* _load_data: the catalog is whatever the data file holds
\* an object of the data file that has no member key
Without(movie, key) == [k \in DOMAIN movie \ {key} |-> movie[k]]

\* the members an object of a data file this program did not write may lack
OptionalMembers == {"document", "title", "overview", "poster_path",
                    "release_date", "genres"}

\* the objects of such a file: two entries, each whole or lacking one member
ForeignEntries ==
    {Pool[1], Pool[2]}
        \cup {Without(Pool[i], key) : i \in 1..2, key \in OptionalMembers}

ForeignCatalogs ==
    {<<a>> : a \in ForeignEntries}
        \cup {<<a, b>> : a \in ForeignEntries,
                        b \in {e \in ForeignEntries : e.id = Pool[2].id}}

\* _load_data on a data file this program did not write
LoadForeignData ==
    /\ pc = "init"
    /\ \E catalog \in ForeignCatalogs :
          /\ movies' = catalog
          /\ unique_movie_ids' = {catalog[i].id : i \in 1..Len(catalog)}
    /\ pc' = "loaded"
    /\ UNCHANGED <<vectorizer, tfidf_matrix, argsortTie, call, response, threads, fetch, data_file>>

LoadData ==
    /\ pc = "init"
    /\ \E catalog \in Catalogs :
          /\ movies' = catalog
          /\ unique_movie_ids' = {catalog[i].id : i \in 1..Len(catalog)}
    /\ pc' = "loaded"
    /\ UNCHANGED <<vectorizer, tfidf_matrix, argsortTie, call, response, threads, fetch, data_file>>

\* a build whose rows come out in the opposite order of the catalog
PrepareTfidfRowsReversed ==
    /\ pc = "loaded"
    /\ LET documents == [i \in 1..Len(movies) |->
                            _preprocess_text(movies[i].document)]
           fitted == Fit(documents)
       IN  IF fitted.vocabulary = {}
           THEN /\ pc' = "crashed"
                /\ UNCHANGED <<vectorizer, tfidf_matrix, argsortTie>>
           ELSE /\ vectorizer' = fitted
                /\ tfidf_matrix' = Reverse([i \in 1..Len(movies) |->
                                               Transform(fitted, documents[i])])
                /\ argsortTie' \in TieOrders(Len(movies))
                /\ pc' = "ready"
    /\ UNCHANGED <<movies, unique_movie_ids, call, response, threads, fetch, data_file>>

\* _prepare_tfidf.  movie['document'] raises KeyError on an entry without the
\* key and fit_transform raises ValueError on an empty vocabulary; either ends
\* the construction and the process
PrepareTfidf ==
    /\ pc = "loaded"
    /\ LET documents == [i \in 1..Len(movies) |->
                            _preprocess_text(movies[i].document)]
           fitted == Fit(documents)
       IN  IF \/ \E i \in 1..Len(movies) : "document" \notin DOMAIN movies[i]
              \/ fitted.vocabulary = {}
           THEN /\ pc' = "crashed"
                /\ UNCHANGED <<vectorizer, tfidf_matrix, argsortTie>>
           ELSE /\ vectorizer' = fitted
                /\ tfidf_matrix' = [i \in 1..Len(movies) |->
                                       Transform(fitted, documents[i])]
                /\ argsortTie' \in TieOrders(Len(movies))
                /\ pc' = "ready"
    /\ UNCHANGED <<movies, unique_movie_ids, call, response, threads, fetch, data_file>>

\* a call of recommend_movies(query, n, filters)
RecommendMovies ==
    /\ pc = "ready"
    /\ \E query \in Queries, n \in Ns, filters \in RankFilterSets :
          /\ call' = [op |-> "recommend_movies", query |-> query, n |-> n,
                      filters |-> filters]
          /\ response' = RecommendMoviesOutcome(query, n, filters)
    /\ pc' = "returned"
    /\ UNCHANGED <<movies, unique_movie_ids, vectorizer, tfidf_matrix, argsortTie,
                   threads, fetch, data_file>>

\* a call of _apply_filters(filters)
ApplyFilters ==
    /\ pc = "ready"
    /\ \E filters \in FilterSets :
          /\ call' = [op |-> "_apply_filters", filters |-> filters]
          /\ response' = [kind |-> "filtered_indices",
                          value |-> _apply_filters(movies, filters)]
    /\ pc' = "returned"
    /\ UNCHANGED <<movies, unique_movie_ids, vectorizer, tfidf_matrix, argsortTie,
                   threads, fetch, data_file>>

\* a call of extract_keywords_from_query(query)
ExtractKeywords ==
    /\ pc = "ready"
    /\ \E query \in RawQueries :
          /\ call' = [op |-> "extract_keywords_from_query", query |-> query]
          /\ response' = [kind |-> "extracted",
                          value |-> extract_keywords_from_query(query)]
    /\ pc' = "returned"
    /\ UNCHANGED <<movies, unique_movie_ids, vectorizer, tfidf_matrix, argsortTie,
                   threads, fetch, data_file>>

\* a call of _preprocess_text(text)
PreprocessText ==
    /\ pc = "ready"
    /\ \E text \in Texts :
          /\ call' = [op |-> "_preprocess_text", text |-> text]
          /\ response' = [kind |-> "text", value |-> _preprocess_text(text)]
    /\ pc' = "returned"
    /\ UNCHANGED <<movies, unique_movie_ids, vectorizer, tfidf_matrix, argsortTie,
                   threads, fetch, data_file>>

\* a request POST /api/recommend with the JSON body data
Recommend ==
    /\ pc = "ready"
    /\ \E data \in Requests :
          /\ call' = [op |-> "recommend", data |-> data]
          /\ response' = recommend(data)
    /\ pc' = "returned"
    /\ UNCHANGED <<movies, unique_movie_ids, vectorizer, tfidf_matrix, argsortTie,
                   threads, fetch, data_file>>

\* the caller takes the result; the next call can come
Return ==
    /\ pc = "returned"
    /\ pc' = "ready"
    /\ call' = NoCall
    /\ response' = NoResponse
    /\ UNCHANGED <<movies, unique_movie_ids, vectorizer, tfidf_matrix, argsortTie,
                   threads, fetch, data_file>>

Next ==
    \/ LoadData \/ PrepareTfidf
    \/ RecommendMovies \/ ApplyFilters \/ ExtractKeywords \/ Recommend
    \/ PreprocessText
    \/ Return

Spec == Init /\ [][Next]_vars

(***************************************************************************)
(* The server under concurrent requests.  Each request runs in a thread of *)
(* its own on the one recommender object; a thread's locals are its own,   *)
(* the catalog, the vectorizer and the matrix are shared.  A step of a     *)
(* thread is the code between two reads of the shared object.              *)
(***************************************************************************)
\* thread t moves to the record next
Continue(t, next) ==
    /\ threads' = [threads EXCEPT ![t] = next]
    /\ UNCHANGED <<movies, unique_movie_ids, vectorizer, tfidf_matrix, argsortTie,
                   pc, call, response, fetch, data_file>>

\* a request arrives and a thread takes it
T_Receive(t) ==
    /\ pc = "ready"
    /\ threads[t].pc = "idle"
    /\ \E request \in ThreadRequests :
          Continue(t, [pc |-> "handle", request |-> request])

\* recommend, lines 1239-1252: the body, the 400 for an empty query, the
\* interpretation and the overrides; nothing shared is read
T_Interpret(t) ==
    /\ threads[t].pc = "handle"
    /\ threads[t].request.op = "recommend"
    /\ LET data == threads[t].request.data
           query == GetOr(data, "query", <<>>)
           extracted == extract_keywords_from_query(query)
       IN  IF ~Truthy(query)
           THEN Continue(t, [pc |-> "done", request |-> threads[t].request,
                             response |-> [kind |-> "error", status |-> 400]])
           ELSE Continue(t, [pc |-> "score", request |-> threads[t].request,
                             query |-> extracted.query,
                             n |-> GetOr(data, "n", DefaultN),
                             filters |-> OverrideFilters(extracted.filters, data)])

\* recommend_movies, lines 1066-1072: reads the vectorizer and the matrix
T_Score(t) ==
    /\ threads[t].pc = "score"
    /\ LET processed_query == _preprocess_text(threads[t].query)
           query_vec == Transform(vectorizer, processed_query)
       IN  Continue(t, [threads[t] EXCEPT !.pc = "filter"] @@
                       [cosine_similarities |->
                           CosineSimilarity(query_vec, tfidf_matrix)])

\* a masking that clears the rows of the shared matrix instead of the scores
T_FilterInPlace(t) ==
    /\ threads[t].pc = "filter"
    /\ LET filtered_indices == _apply_filters(movies, threads[t].filters)
       IN  /\ tfidf_matrix' =
                 [i \in 1..Len(tfidf_matrix) |->
                     IF i \in Range(filtered_indices) THEN tfidf_matrix[i]
                     ELSE [term \in DOMAIN tfidf_matrix[i] |-> 0]]
           /\ threads' = [threads EXCEPT ![t].pc = "select"]
    /\ UNCHANGED <<movies, unique_movie_ids, vectorizer, argsortTie, pc, call, response,
                   fetch, data_file>>

\* recommend_movies, lines 1075-1083: _apply_filters reads the catalog; the
\* mask is written into the thread's own array
T_Filter(t) ==
    /\ threads[t].pc = "filter"
    /\ Continue(t, [threads[t] EXCEPT
                       !.pc = "select",
                       !.cosine_similarities =
                           ApplyMask(movies, threads[t].cosine_similarities,
                                     threads[t].filters)])

\* the records of lines 1086-1101 for the scores and the order of equal scores
Select(cosine_similarities, n, tie) ==
    LET top_indices == TopIndices(ArgSort(cosine_similarities, tie), n)
        kept == SelectSeq(top_indices, LAMBDA idx : cosine_similarities[idx] > 0)
    IN  [k \in 1..Len(kept) |->
            Recommendation(movies[kept[k]], cosine_similarities[kept[k]])]

\* the JSON of lines 1257-1262
Answer(thread, recommendations) ==
    [pc |-> "done", request |-> thread.request,
     query |-> thread.query, n |-> thread.n, filters |-> thread.filters,
     response |-> [kind |-> "recommend",
                   original_query |-> thread.request.data.query,
                   enhanced_query |-> thread.query,
                   filters_applied |-> thread.filters,
                   recommendations |-> recommendations]]

\* a selection in which every call sorts equal scores in an order of its own
T_SelectAnyOrder(t) ==
    /\ threads[t].pc = "select"
    /\ \E tie \in TieOrders(Len(movies)) :
          Continue(t, Answer(threads[t],
                             Select(threads[t].cosine_similarities, threads[t].n, tie)))

\* recommend_movies, lines 1086-1103, and the response: reads the catalog
T_Select(t) ==
    /\ threads[t].pc = "select"
    /\ Continue(t, Answer(threads[t],
                          Select(threads[t].cosine_similarities, threads[t].n,
                                 argsortTie)))

\* get_movie: reads the catalog
T_GetMovie(t) ==
    /\ threads[t].pc = "handle"
    /\ threads[t].request.op = "get_movie"
    /\ Continue(t, [pc |-> "done", request |-> threads[t].request,
                    response |-> get_movie(threads[t].request.movie_id)])

\* get_filters: reads the catalog
T_GetFilters(t) ==
    /\ threads[t].pc = "handle"
    /\ threads[t].request.op = "get_filters"
    /\ Continue(t, [pc |-> "done", request |-> threads[t].request,
                    response |-> get_filters])

\* get_stats: reads the catalog
T_GetStats(t) ==
    /\ threads[t].pc = "handle"
    /\ threads[t].request.op = "get_stats"
    /\ Continue(t, [pc |-> "done", request |-> threads[t].request,
                    response |-> get_stats])

\* the response is sent and the thread is free again
T_Respond(t) ==
    /\ threads[t].pc = "done"
    /\ Continue(t, Idle)

NextConcurrent ==
    \/ LoadData \/ PrepareTfidf
    \/ \E t \in Threads :
          \/ T_Receive(t) \/ T_Interpret(t) \/ T_Score(t) \/ T_Filter(t)
          \/ T_Select(t) \/ T_GetMovie(t) \/ T_GetFilters(t) \/ T_GetStats(t)
          \/ T_Respond(t)

SpecConcurrent == Init /\ [][NextConcurrent]_vars

\* the program started on a data file it did not write
NextForeign ==
    \/ LoadForeignData \/ PrepareTfidf
    \/ RecommendMovies
    \/ Return

SpecForeign == Init /\ [][NextForeign]_vars

(***************************************************************************)
(* The catalog acquisition of the constructor: the full fetch of a first   *)
(* run, and the load of the data file followed by the additional fetch of  *)
(* a later one.  One loop of each shape the code has is modelled: the      *)
(* bounded page loop (movie/popular, _fetch_by_language), the quota loop   *)
(* that retries a failed page (Bollywood, South Indian, web series) and    *)
(* the unguarded page loop of the additional web series.  The targets are  *)
(* scaled to the catalogs of the model, the page counts to MaxPages.       *)
(***************************************************************************)
\* lines 27-36, scaled
TARGET_MOVIE_COUNT == MaxCatalog
BOLLYWOOD_COUNT == MaxQuota
SOUTH_INDIAN_COUNT == 4 * MaxQuota
WEB_SERIES_COUNT == 2 * MaxQuota

\* lines 799, 801, 316: the tags a phase appends to the document
Tag_Bollywood == <<" ","b","o","l","l","y","w","o","o","d"," ","h","i","n","d","i",
                   " ","i","n","d","i","a","n">>
Tag_Tamil == <<" ","t","a","m","i","l"," ","s","o","u","t","h",
               " ","i","n","d","i","a","n">>
Tag_WebSeries == <<" ","w","e","b"," ","s","e","r","i","e","s"," ","t","v",
                   " ","s","h","o","w">>

\* line 96: _fetch_from_endpoint("movie/popular", pages=20), saved once at its end
P_Popular ==
    [name |-> "movie/popular", loop |-> "for", kind |-> Movie, tag |-> <<>>,
     limit |-> Min(20, MaxPages), quota |-> 0, save |-> "end", guarded |-> TRUE]

\* lines 155-188
P_Bollywood ==
    [name |-> "bollywood", loop |-> "while", kind |-> Movie, tag |-> Tag_Bollywood,
     limit |-> 100, quota |-> BOLLYWOOD_COUNT, save |-> "page", guarded |-> TRUE]

\* lines 300-336, for the language ta: the is_south_indian tag and the
\* language_tag are both appended
P_Tamil ==
    [name |-> "tamil", loop |-> "while", kind |-> Movie,
     tag |-> Tag_Tamil \o Tag_Tamil,
     limit |-> 20, quota |-> SOUTH_INDIAN_COUNT \div 4, save |-> "page",
     guarded |-> TRUE]

\* lines 402-447
P_WebSeries ==
    [name |-> "tv/popular", loop |-> "while", kind |-> Tv, tag |-> Tag_WebSeries,
     limit |-> 15, quota |-> (WEB_SERIES_COUNT * 6) \div 10, save |-> "page",
     guarded |-> TRUE]

FullPlan == <<P_Popular, P_Bollywood, P_Tamil, P_WebSeries>>

\* lines 572-585: the entries of catalog counted as Bollywood and as web series
bollywood_count(catalog) ==
    Cardinality({i \in 1..Len(catalog) :
                    /\ GetOr(catalog[i], "content_type", Movie) # Tv
                    /\ Get(catalog[i], "language") = Hi})

web_series_count(catalog) ==
    Cardinality({i \in 1..Len(catalog) :
                    GetOr(catalog[i], "content_type", Movie) = Tv})

\* lines 594, 597: max(0, target - count)
need_bollywood(catalog) ==
    IF BOLLYWOOD_COUNT > bollywood_count(catalog)
    THEN BOLLYWOOD_COUNT - bollywood_count(catalog) ELSE 0

need_web_series(catalog) ==
    IF WEB_SERIES_COUNT > web_series_count(catalog)
    THEN WEB_SERIES_COUNT - web_series_count(catalog) ELSE 0

\* lines 606-609: _fetch_by_language("hi", max_pages=min(50, need // 20 + 1))
P_MoreHindi(need) ==
    [name |-> "more hi", loop |-> "for", kind |-> Movie, tag |-> <<>>,
     limit |-> Min(Min(50, (need \div 20) + 1), MaxPages), quota |-> 0,
     save |-> "none", guarded |-> TRUE]

\* lines 619-637: the page loop of the additional web series has no try
P_MoreSeries(need) ==
    [name |-> "more tv", loop |-> "for", kind |-> Tv, tag |-> Tag_WebSeries,
     limit |-> Min(Min(20, (need \div 20) + 1), MaxPages), quota |-> 0,
     save |-> "none", guarded |-> FALSE]

\* lines 605-637: the phases _fetch_additional_data runs on catalog
AdditionalPlan(catalog) ==
    (IF need_bollywood(catalog) > 0
     THEN <<P_MoreHindi(need_bollywood(catalog))>> ELSE <<>>)
    \o (IF need_web_series(catalog) > 0
        THEN <<P_MoreSeries(need_web_series(catalog))>> ELSE <<>>)

\* the acquisition at the first page of the first phase of plan
Start(plan) ==
    [plan |-> plan, page |-> 1, at |-> "request", results |-> <<>>,
     total_pages |-> 0, count |-> 0, last |-> "none"]

\* what the provider knows: two movies; two shows, one with the id of a movie
Show155 == [Pool[3] EXCEPT !.id = 155, !.title = <<"G","o","t","h","a","m">>]

ProviderMovies == {Pool[1], Pool[2]}
ProviderShows == {Pool[3], Show155}

\* lines 817-906, 908-1019: the entry _get_movie_details or _get_tv_details
\* builds for id from a 200 answer
Details(kind, id) ==
    IF kind = Tv THEN CHOOSE e \in ProviderShows : e.id = id
    ELSE CHOOSE e \in ProviderMovies : e.id = id

\* the result lists of a page: ids known and seen twice, and a result whose
\* id is 0 or missing
MovieBatches == { <<[id |-> 155], [id |-> 0], [id |-> 155]>>,
                  <<[id |-> 19404], [id |-> 155]>> }
TvBatches == { <<[id |-> 79352], [id |-> 155]>> }

\* the answers of the provider to a page request: 200 with a result list and
\* total_pages, another status, or an exception of requests.get
Answers(kind) ==
    {[outcome |-> "ok", results |-> r, total_pages |-> tp] :
        r \in (IF kind = Tv THEN TvBatches ELSE MovieBatches) \cup {<<>>},
        tp \in {1, MaxPages}}
    \cup {[outcome |-> o, results |-> <<>>, total_pages |-> 0] :
             o \in {"status", "exception"}}

\* lines 45-54, 76-80: no data file, the full fetch begins
FetchAndProcessData ==
    /\ pc = "init"
    /\ ~data_file.exists
    /\ movies' = <<>>
    /\ unique_movie_ids' = {}
    /\ fetch' = Start(FullPlan)
    /\ pc' = "fetching"
    /\ UNCHANGED <<vectorizer, tfidf_matrix, argsortTie, call, response, threads,
                   data_file>>

\* lines 47-52, 67-74, 558-561: the data file is loaded; the additional fetch
\* begins when it holds fewer entries than the target
LoadSavedData ==
    /\ pc = "init"
    /\ data_file.exists
    /\ movies' = data_file.movies
    /\ unique_movie_ids' = {data_file.movies[i].id : i \in 1..Len(data_file.movies)}
    /\ IF Len(data_file.movies) < TARGET_MOVIE_COUNT
       THEN /\ fetch' = Start(AdditionalPlan(data_file.movies))
            /\ pc' = "fetching"
       ELSE /\ fetch' = NoFetch
            /\ pc' = "loaded"
    /\ UNCHANGED <<vectorizer, tfidf_matrix, argsortTie, call, response, threads,
                   data_file>>

\* the loop condition of the phase is false: range() is exhausted, or the
\* quota of a while loop is reached
LoopOver(phase) ==
    IF phase.loop = "while" THEN ~(fetch.count < phase.quota)
    ELSE fetch.page > phase.limit

\* the top of a page loop: the loop ends, or one page is requested.  A 200
\* answer hands its results to the candidate loop (a while loop breaks on an
\* empty list); on another status or an exception a for loop goes on to the
\* next page, a while loop sleeps and asks for the same page again, and the
\* unguarded loop lets the exception end the construction
RequestPage ==
    /\ pc = "fetching"
    /\ fetch.plan # <<>>
    /\ fetch.at = "request"
    /\ LET phase == Head(fetch.plan)
       IN  IF LoopOver(phase)
           THEN /\ fetch' = Start(Tail(fetch.plan))
                /\ data_file' = IF phase.save = "end" THEN File(movies)
                                ELSE data_file
                /\ pc' = pc
           ELSE \E answer \in Answers(phase.kind) :
                   /\ data_file' = data_file
                   /\ IF answer.outcome = "ok"
                      THEN /\ pc' = pc
                           /\ fetch' =
                                 IF phase.loop = "while" /\ answer.results = <<>>
                                 THEN Start(Tail(fetch.plan))
                                 ELSE [fetch EXCEPT
                                          !.at = "process",
                                          !.results = answer.results,
                                          !.total_pages = answer.total_pages,
                                          !.last = "ok"]
                      ELSE IF phase.loop = "while"
                      THEN /\ pc' = pc
                           /\ fetch' = [fetch EXCEPT !.last = answer.outcome]
                      ELSE IF phase.guarded \/ answer.outcome = "status"
                      THEN /\ pc' = pc
                           /\ fetch' = [fetch EXCEPT !.page = @ + 1,
                                                     !.last = answer.outcome]
                      ELSE /\ pc' = "crashed"
                           /\ fetch' = [fetch EXCEPT !.last = answer.outcome]
    /\ UNCHANGED <<movies, unique_movie_ids, vectorizer, tfidf_matrix, argsortTie,
                   call, response, threads>>

\* lines 799-806, 421, 425: the entry with the tags of the phase
Tagged(details, tag) == [details EXCEPT !.document = @ \o tag]

\* the candidate loop without the test of the seen ids
ProcessCandidateUnchecked ==
    /\ pc = "fetching"
    /\ fetch.at = "process"
    /\ fetch.results # <<>>
    /\ LET phase == Head(fetch.plan)
           movie_id == Head(fetch.results).id
       IN  IF movie_id = 0
           THEN /\ fetch' = [fetch EXCEPT !.results = Tail(@), !.last = "skipped"]
                /\ UNCHANGED <<movies, unique_movie_ids>>
           ELSE \/ /\ movies' = Append(movies,
                                       Tagged(Details(phase.kind, movie_id),
                                              phase.tag))
                   /\ unique_movie_ids' = unique_movie_ids \cup {movie_id}
                   /\ fetch' = [fetch EXCEPT !.results = Tail(@),
                                             !.count = @ + 1,
                                             !.last = "added"]
                \/ /\ \E failure \in {"no_details", "raised"} :
                         fetch' = [fetch EXCEPT !.results = Tail(@),
                                                !.last = failure]
                   /\ UNCHANGED <<movies, unique_movie_ids>>
    /\ UNCHANGED <<vectorizer, tfidf_matrix, argsortTie, pc, call, response, threads,
                   data_file>>

\* the candidate loop marking the id of a failed detail fetch as seen
ProcessCandidateMarksFailed ==
    /\ pc = "fetching"
    /\ fetch.at = "process"
    /\ fetch.results # <<>>
    /\ LET phase == Head(fetch.plan)
           movie_id == Head(fetch.results).id
       IN  IF movie_id = 0 \/ movie_id \in unique_movie_ids
           THEN /\ fetch' = [fetch EXCEPT !.results = Tail(@), !.last = "skipped"]
                /\ UNCHANGED <<movies, unique_movie_ids>>
           ELSE \/ /\ movies' = Append(movies,
                                       Tagged(Details(phase.kind, movie_id),
                                              phase.tag))
                   /\ unique_movie_ids' = unique_movie_ids \cup {movie_id}
                   /\ fetch' = [fetch EXCEPT !.results = Tail(@),
                                             !.count = @ + 1,
                                             !.last = "added"]
                \/ /\ \E failure \in {"no_details", "raised"} :
                         fetch' = [fetch EXCEPT !.results = Tail(@),
                                                !.last = failure]
                   /\ unique_movie_ids' = unique_movie_ids \cup {movie_id}
                   /\ UNCHANGED movies
    /\ UNCHANGED <<vectorizer, tfidf_matrix, argsortTie, pc, call, response, threads,
                   data_file>>

\* lines 789-813 (and the same loop over shows, lines 419-431, 625-637), one
\* candidate: a falsy or seen id is passed over without a detail request;
\* otherwise the details are fetched and, when they come, tagged and appended
\* and the id is marked as seen; when they do not come (None) or anything
\* raises, the candidate is dropped
ProcessCandidate ==
    /\ pc = "fetching"
    /\ fetch.at = "process"
    /\ fetch.results # <<>>
    /\ LET phase == Head(fetch.plan)
           movie_id == Head(fetch.results).id
       IN  IF movie_id = 0 \/ movie_id \in unique_movie_ids
           THEN /\ fetch' = [fetch EXCEPT !.results = Tail(@), !.last = "skipped"]
                /\ UNCHANGED <<movies, unique_movie_ids>>
           ELSE \/ /\ movies' = Append(movies,
                                       Tagged(Details(phase.kind, movie_id),
                                              phase.tag))
                   /\ unique_movie_ids' = unique_movie_ids \cup {movie_id}
                   /\ fetch' = [fetch EXCEPT !.results = Tail(@),
                                             !.count = @ + 1,
                                             !.last = "added"]
                \/ /\ \E failure \in {"no_details", "raised"} :
                         fetch' = [fetch EXCEPT !.results = Tail(@),
                                                !.last = failure]
                   /\ UNCHANGED <<movies, unique_movie_ids>>
    /\ UNCHANGED <<vectorizer, tfidf_matrix, argsortTie, pc, call, response, threads,
                   data_file>>

\* the end of a page: a while loop saves its progress, counts the page and
\* breaks behind the last page or the page limit (lines 176-182); a for loop
\* goes on to its next page
EndPage ==
    /\ pc = "fetching"
    /\ fetch.at = "process"
    /\ fetch.results = <<>>
    /\ LET phase == Head(fetch.plan)
           page == fetch.page + 1
           onward == [fetch EXCEPT !.page = page, !.at = "request",
                                   !.total_pages = 0, !.last = "page"]
       IN  IF phase.loop = "while"
           THEN /\ data_file' = File(movies)
                /\ fetch' = IF page > fetch.total_pages \/ page > phase.limit
                            THEN Start(Tail(fetch.plan))
                            ELSE onward
           ELSE /\ data_file' = data_file
                /\ fetch' = onward
    /\ UNCHANGED <<movies, unique_movie_ids, vectorizer, tfidf_matrix, argsortTie,
                   pc, call, response, threads>>

\* lines 544-545, 655-656: the final save; the constructor goes on to the build
FinishFetch ==
    /\ pc = "fetching"
    /\ fetch.plan = <<>>
    /\ data_file' = File(movies)
    /\ fetch' = NoFetch
    /\ pc' = "loaded"
    /\ UNCHANGED <<movies, unique_movie_ids, vectorizer, tfidf_matrix, argsortTie,
                   call, response, threads>>

\* the ids a GET /api/movie/<id> asks for: one the provider knows, one unknown
MovieIds == {155, 1}

\* a server that takes requests while the constructor still runs
GetMovieEarly ==
    /\ pc \in {"ready", "fetching"}
    /\ \E movie_id \in MovieIds :
          /\ call' = [op |-> "get_movie", movie_id |-> movie_id]
          /\ response' = get_movie(movie_id)
    /\ pc' = IF pc = "ready" THEN "returned" ELSE pc
    /\ UNCHANGED <<movies, unique_movie_ids, vectorizer, tfidf_matrix, argsortTie,
                   threads, fetch, data_file>>

\* lines 1380-1383, 1264-1270: a request GET /api/movie/<id>; app.run starts
\* behind the construction of the recommender
GetMovie ==
    /\ pc = "ready"
    /\ \E movie_id \in MovieIds :
          /\ call' = [op |-> "get_movie", movie_id |-> movie_id]
          /\ response' = get_movie(movie_id)
    /\ pc' = "returned"
    /\ UNCHANGED <<movies, unique_movie_ids, vectorizer, tfidf_matrix, argsortTie,
                   threads, fetch, data_file>>

\* the process is stopped and started again: the object is gone, the data
\* file stays
Restart ==
    /\ pc # "init"
    /\ movies' = <<>>
    /\ unique_movie_ids' = {}
    /\ vectorizer' = None
    /\ tfidf_matrix' = None
    /\ argsortTie' = <<>>
    /\ pc' = "init"
    /\ call' = NoCall
    /\ response' = NoResponse
    /\ fetch' = NoFetch
    /\ UNCHANGED <<threads, data_file>>

\* the steps of the acquisition of a run that finds no data file
Acquire ==
    \/ FetchAndProcessData
    \/ RequestPage \/ ProcessCandidate \/ EndPage \/ FinishFetch

\* the runs of the program, one after the other, on the data file they leave
NextAcquire ==
    \/ Acquire
    \/ LoadSavedData
    \/ PrepareTfidf
    \/ GetMovie \/ Return
    \/ Restart

SpecAcquire == Init /\ [][NextAcquire]_vars

\* the acquisition of a first run, up to the build.  The constructor is one
\* thread of control: while the acquisition has a next step it takes it
SpecFirstRun == Init /\ [][Acquire]_vars /\ WF_vars(Acquire)

(***************************************************************************)
(* The claims.                                                             *)
(***************************************************************************)
Recommended == pc = "returned" /\ call.op = "recommend_movies"
Filtered == pc = "returned" /\ call.op = "_apply_filters"

\* the catalog position of the entry a result reports
PositionOf(rec) == CHOOSE i \in 1..Len(movies) : movies[i].id = rec.id

\* the number of entries whose score, after masking, is above zero
PositiveCount(query, filters) ==
    LET scores == MaskedScores(query, filters)
    IN  Cardinality({i \in 1..Len(scores) : scores[i] > 0})

\* the date an entry's effective year is read from: release_date, or first_air_date
\* when release_date is absent or empty; None when both are
EffectiveDate(movie) ==
    IF Truthy(Get(movie, "release_date")) THEN movie.release_date
    ELSE IF Truthy(Get(movie, "first_air_date")) THEN movie.first_air_date
    ELSE None

\* the effective year: the first four characters of the date, parsed as an integer
EffectiveYear(movie) ==
    IF EffectiveDate(movie) = None THEN [ok |-> FALSE, val |-> 0]
    ELSE PyInt(Prefix(EffectiveDate(movie), 4))

YearSatisfied(movie, year) ==
    EffectiveYear(movie).ok /\ EffectiveYear(movie).val = year

GenreSatisfied(movie, genre) ==
    \E g \in Range(GetOr(movie, "genres", <<>>)) : StrLower(g) = StrLower(genre)

LanguageSatisfied(movie, language) ==
    IF "list" \in DOMAIN language
    THEN Get(movie, "language") \in Range(language.list)
    ELSE Get(movie, "language") = language.str

ContentTypeSatisfied(movie, content_type) ==
    Get(movie, "content_type") = content_type

TimePeriodSatisfied(movie, period) ==
    /\ EffectiveYear(movie).ok
    /\ period[1] <= EffectiveYear(movie).val
    /\ EffectiveYear(movie).val <= period[2]

\* C1: filter monotonicity: with a non-empty filter set, every result of
\* recommend_movies is a catalog entry that the filter evaluator includes
C1_FilterMonotonicity ==
    (Recommended /\ DOMAIN call.filters # {}) =>
        \A k \in 1..Len(response.value) :
            Include(movies[PositionOf(response.value[k])], call.filters)

\* C2: no-match closure: when the filter evaluator includes no catalog entry,
\* recommend_movies returns the empty sequence
C2_NoMatchClosure ==
    (Recommended /\ \A i \in 1..Len(movies) : ~Include(movies[i], call.filters)) =>
        response.value = <<>>

\* C3: tie-breaking: for n >= 1, of two entries with equal score the one at the
\* lower catalog position is listed first, and is selected whenever the other is
C3_LowerIndexWinsTies ==
    (Recommended /\ call.n >= 1) =>
        LET scores == MaskedScores(call.query, call.filters)
            value == response.value
            returned == {PositionOf(value[k]) : k \in 1..Len(value)}
        IN  /\ \A k, l \in 1..Len(value) :
                   (k < l /\ value[k].similarity_score = value[l].similarity_score)
                   => PositionOf(value[k]) < PositionOf(value[l])
            /\ \A i, j \in 1..Len(movies) :
                   (i < j /\ scores[i] = scores[j] /\ j \in returned)
                   => i \in returned

\* C4: non-positive n: recommend_movies with n <= 0 returns the empty sequence
C4_NonPositiveNEmpty ==
    (Recommended /\ call.n <= 0) => response.value = <<>>

\* C5: top-N length: with n >= 1 and an empty filter set, recommend_movies
\* returns at most n results
C5_TopNLength ==
    (Recommended /\ call.n >= 1 /\ DOMAIN call.filters = {}) =>
        Len(response.value) <= call.n

\* a call with n >= 1 and no filters that returned n results although more than n
\* entries score above zero
C5_Witness ==
    /\ Recommended /\ call.n >= 1 /\ DOMAIN call.filters = {}
    /\ Len(response.value) = call.n
    /\ PositiveCount(call.query, call.filters) > call.n

\* C6: score ordering: in every sequence recommend_movies returns,
\* similarity_score is non-increasing from the first result to the last
C6_ScoresNonIncreasing ==
    Recommended =>
        \A k \in 1..(Len(response.value) - 1) :
            response.value[k].similarity_score
                >= response.value[k + 1].similarity_score

\* a call with n >= 2 that returned two results, the first scoring strictly higher
\* than the second although it stands later in the catalog
C6_Witness ==
    /\ Recommended /\ call.n >= 2
    /\ Len(response.value) = 2
    /\ response.value[1].similarity_score > response.value[2].similarity_score
    /\ PositionOf(response.value[1]) > PositionOf(response.value[2])

\* C7: language filter: an entry satisfies a language filter that carries several
\* codes iff its language is one of them, and one that carries a single code iff
\* its language equals it
C7_LanguageFilter ==
    (Filtered /\ DOMAIN call.filters = {"language"}) =>
        \A i \in 1..Len(movies) :
            (i \in Range(response.value))
                <=> LanguageSatisfied(movies[i], call.filters.language)

\* C8: filter conjunction: _apply_filters includes position i iff every filter
\* field that is present is satisfied by entry i; absent fields exclude nothing
C8_FilterConjunction ==
    Filtered =>
        LET f == call.filters
        IN  \A i \in 1..Len(movies) :
                (i \in Range(response.value)) <=>
                    /\ "year" \in DOMAIN f => YearSatisfied(movies[i], f.year)
                    /\ "genre" \in DOMAIN f => GenreSatisfied(movies[i], f.genre)
                    /\ "language" \in DOMAIN f
                           => LanguageSatisfied(movies[i], f.language)
                    /\ "content_type" \in DOMAIN f
                           => ContentTypeSatisfied(movies[i], f.content_type)
                    /\ "time_period" \in DOMAIN f
                           => TimePeriodSatisfied(movies[i], f.time_period)

\* C9: year filter: an entry satisfies a year filter iff its effective year, parsed
\* as an integer, equals filters.year; a missing or unparsable date satisfies none
C9_YearFilter ==
    (Filtered /\ DOMAIN call.filters = {"year"}) =>
        \A i \in 1..Len(movies) :
            (i \in Range(response.value))
                <=> YearSatisfied(movies[i], call.filters.year)

\* C10: time-period filter: an entry satisfies time_period = [start, end] iff its
\* effective year is parsable and lies in start..end; a missing or unparsable date
\* satisfies no time period, also one that contains 0
C10_TimePeriodFilter ==
    (Filtered /\ DOMAIN call.filters = {"time_period"}) =>
        \A i \in 1..Len(movies) :
            (i \in Range(response.value))
                <=> TimePeriodSatisfied(movies[i], call.filters.time_period)

(***************************************************************************)
(* The interpreter's claims, C13 to C18.  What a claim expects is written  *)
(* here from the claim's own words: words delimited by non-word            *)
(* characters, tokens as maximal runs of word characters, and the orders   *)
(* the claims name.                                                        *)
(***************************************************************************)
Extracted == pc = "returned" /\ call.op = "extract_keywords_from_query"

\* word stands in text at position p with no word character on either side
WholeWordAt(word, text, p) ==
    /\ p >= 1 /\ p + Len(word) - 1 <= Len(text)
    /\ \A k \in 1..Len(word) : text[p + k - 1] = word[k]
    /\ p = 1 \/ ~IsWordChar(text[p - 1])
    /\ p + Len(word) - 1 = Len(text) \/ ~IsWordChar(text[p + Len(word)])

\* word occurs in text as a whole word, whatever the case of the text
OccursAsWholeWord(word, text) ==
    LET lowered == StrLower(text)
    IN  \E p \in 1..Len(text) : WholeWordAt(word, lowered, p)

\* the least position of names whose word occurs in text, 0 when none does
FirstInOrder(names, text) ==
    LET found == {i \in 1..Len(names) : OccursAsWholeWord(names[i], text)}
    IN  IF found = {} THEN 0 ELSE CHOOSE i \in found : \A j \in found : i <= j

\* the first position in text at which any word of names stands
FirstInText(names, text) ==
    LET lowered == StrLower(text)
        at == {p \in 1..Len(text) :
                  \E i \in 1..Len(names) : WholeWordAt(names[i], lowered, p)}
    IN  IF at = {} THEN 0 ELSE CHOOSE p \in at : \A q \in at : p <= q

\* the positions at which a token of four digits, 19xx or 20xx, starts
YearTokens(text) ==
    {p \in 1..(Len(text) - 3) :
        /\ \A k \in 0..3 : IsDigit(text[p + k])
        /\ <<text[p], text[p + 1]>> \in {<<"1", "9">>, <<"2", "0">>}
        /\ p = 1 \/ ~IsWordChar(text[p - 1])
        /\ p + 3 = Len(text) \/ ~IsWordChar(text[p + 4])}

\* the number the four digits at p stand for
FourDigits(text, p) ==
    1000 * DigitValue(text[p]) + 100 * DigitValue(text[p + 1])
        + 10 * DigitValue(text[p + 2]) + DigitValue(text[p + 3])

\* the orders the claims give
GenreOrder == <<<<"a","c","t","i","o","n">>,
    <<"c","o","m","e","d","y">>,
    <<"d","r","a","m","a">>,
    <<"h","o","r","r","o","r">>,
    <<"s","c","i","-","f","i">>,
    <<"r","o","m","a","n","c","e">>,
    <<"t","h","r","i","l","l","e","r">>,
    <<"a","d","v","e","n","t","u","r","e">>,
    <<"f","a","n","t","a","s","y">>,
    <<"a","n","i","m","a","t","i","o","n">>,
    <<"d","o","c","u","m","e","n","t","a","r","y">>,
    <<"b","i","o","g","r","a","p","h","y">>>>

RegionOrder == <<<<<<"h","o","l","l","y","w","o","o","d">>, [str |-> En]>>,
    <<<<"b","o","l","l","y","w","o","o","d">>, [str |-> Hi]>>,
    <<<<"h","i","n","d","i">>, [str |-> Hi]>>,
    <<<<"t","a","m","i","l">>, [str |-> Ta]>>,
    <<<<"t","e","l","u","g","u">>, [str |-> Te]>>,
    <<<<"m","a","l","a","y","a","l","a","m">>, [str |-> Ml]>>,
    <<<<"k","a","n","n","a","d","a">>, [str |-> Kn]>>,
    <<<<"s","o","u","t","h"," ","i","n","d","i","a","n">>, [list |-> <<Ta, Te, Ml, Kn>>]>>,
    <<<<"i","n","d","i","a","n">>, [list |-> <<Hi, Ta, Te, Ml, Kn>>]>>>>

ContentTypeOrder == <<<<<<"m","o","v","i","e">>, Movie>>,
    <<<<"f","i","l","m">>, Movie>>,
    <<<<"w","e","b"," ","s","e","r","i","e","s">>, Tv>>,
    <<<<"t","v"," ","s","e","r","i","e","s">>, Tv>>,
    <<<<"s","h","o","w">>, Tv>>,
    <<<<"t","e","l","e","v","i","s","i","o","n">>, Tv>>,
    <<<<"o","t","t">>, Tv>>,
    <<<<"s","t","r","e","a","m","i","n","g">>, Tv>>>>

MoodOrder == <<<<"h","a","p","p","y">>, <<"s","a","d">>, <<"s","c","a","r","y">>, <<"e","x","c","i","t","i","n","g">>, <<"t","h","o","u","g","h","t","f","u","l">>, <<"r","o","m","a","n","t","i","c">>>>

Names(order) == [k \in 1..Len(order) |-> order[k][1]]

ExpectedYear(text) ==
    IF YearTokens(text) = {} THEN <<>>
    ELSE LET p == CHOOSE q \in YearTokens(text) : \A r \in YearTokens(text) : q <= r
         IN  "year" :> FourDigits(text, p)

ExpectedGenre(text) ==
    IF FirstInOrder(GenreOrder, text) = 0 THEN <<>>
    ELSE "genre" :> GenreOrder[FirstInOrder(GenreOrder, text)]

ExpectedLanguage(text) ==
    IF FirstInOrder(Names(RegionOrder), text) = 0 THEN <<>>
    ELSE "language" :> RegionOrder[FirstInOrder(Names(RegionOrder), text)][2]

ExpectedContentType(text) ==
    IF FirstInOrder(Names(ContentTypeOrder), text) = 0 THEN <<>>
    ELSE "content_type" :>
             ContentTypeOrder[FirstInOrder(Names(ContentTypeOrder), text)][2]

\* the part of the filter set f under the keys of keys
Fields(f, keys) == [k \in DOMAIN f \cap keys |-> f[k]]

\* word occurs somewhere in text, as it is written
Contains(text, word) ==
    \E p \in 1..Len(text) :
        p + Len(word) - 1 <= Len(text) /\ SubSeq(text, p, p + Len(word) - 1) = word

\* C13: extract_keywords_from_query sets filters.genre to the first keyword of
\* the genre list that occurs as a whole word, in any case, in the raw query;
\* list order decides, not the position in the text ("drama action" gives
\* "action"); without a keyword in the query there is no genre field.
C13_GenreExtraction ==
    Extracted =>
        /\ Fields(response.value.filters, {"genre"}) = ExpectedGenre(call.query)
        /\ call.query = RQ_DramaAction =>
               response.value.filters.genre = <<"a","c","t","i","o","n">>

\* a query whose first genre keyword in the text is not the first in the list
C13_Witness ==
    /\ Extracted
    /\ "genre" \in DOMAIN response.value.filters
    /\ ~WholeWordAt(response.value.filters.genre, StrLower(call.query),
                    FirstInText(GenreOrder, call.query))

\* C14: extract_keywords_from_query sets filters.year to the integer value of
\* the leftmost whole-token four-digit number 19xx or 20xx of the raw query
\* and sets no year when there is none; "best action movies 1999" gives
\* year = 1999 and genre = "action".
C14_YearExtraction ==
    Extracted =>
        /\ Fields(response.value.filters, {"year"}) = ExpectedYear(call.query)
        /\ call.query = RQ_BestAction1999 =>
               /\ response.value.filters.year = 1999
               /\ response.value.filters.genre = <<"a","c","t","i","o","n">>

\* a query with two year tokens behind a longer number that holds a year's digits
C14_Witness ==
    /\ Extracted
    /\ Cardinality(YearTokens(call.query)) >= 2
    /\ "year" \in DOMAIN ExtractYearAnywhere(call.query)
    /\ ExtractYearAnywhere(call.query).year # response.value.filters.year
    /\ response.value.filters.year = 2001

\* C15: extract_keywords_from_query sets filters.language to the code(s) of the
\* first entry of the region mapping, in its order, whose name occurs as a
\* whole word in the raw query; the year, genre and content-type passes are
\* unaffected, so "tamil movie from 2015" gives "ta", "movie" and 2015.
C15_RegionExtraction ==
    Extracted =>
        /\ Fields(response.value.filters, {"language"}) = ExpectedLanguage(call.query)
        /\ Fields(response.value.filters, {"year", "genre", "content_type"})
               = ExpectedYear(call.query) @@ ExpectedGenre(call.query)
                     @@ ExpectedContentType(call.query)
        /\ call.query = RQ_TamilMovie2015 =>
               response.value.filters =
                   [language |-> [str |-> Ta], content_type |-> Movie, year |-> 2015]
        /\ call.query = RQ_SouthIndianFilm =>
               response.value.filters.language = [list |-> <<Ta, Te, Ml, Kn>>]

\* a query naming two regions of the mapping, answered with the earlier entry
\* while a year or content type was found beside it
C15_Witness ==
    /\ Extracted
    /\ Cardinality({i \in 1..Len(RegionOrder) :
                       OccursAsWholeWord(RegionOrder[i][1], call.query)}) >= 2
    /\ "language" \in DOMAIN response.value.filters
    /\ DOMAIN response.value.filters # {"language"}

\* C16: extract_keywords_from_query sets filters.content_type to the value of
\* the first phrase of the content-type mapping, in its order, that occurs as
\* a whole word or phrase in the raw query; with phrases of both kinds the
\* earlier entry decides; with none there is no content-type field.
C16_ContentTypeExtraction ==
    Extracted =>
        Fields(response.value.filters, {"content_type"})
            = ExpectedContentType(call.query)

\* a query with a tv phrase standing before a movie phrase, answered "movie"
C16_Witness ==
    /\ Extracted
    /\ \E i, j \in 1..Len(ContentTypeOrder) :
          /\ ContentTypeOrder[i][2] = Tv /\ ContentTypeOrder[j][2] = Movie
          /\ \E p, q \in 1..Len(call.query) :
                /\ p < q
                /\ WholeWordAt(ContentTypeOrder[i][1], StrLower(call.query), p)
                /\ WholeWordAt(ContentTypeOrder[j][1], StrLower(call.query), q)
    /\ response.value.filters.content_type = Movie

\* what each mood appends, a space and then its terms with a space between them
MoodSuffix == <<<<" ","c","o","m","e","d","y"," ","f","e","e","l","-","g","o","o","d"," ","u","p","l","i","f","t","i","n","g">>,
    <<" ","d","r","a","m","a"," ","t","r","a","g","e","d","y"," ","e","m","o","t","i","o","n","a","l">>,
    <<" ","h","o","r","r","o","r"," ","t","h","r","i","l","l","e","r"," ","s","u","s","p","e","n","s","e">>,
    <<" ","a","c","t","i","o","n"," ","a","d","v","e","n","t","u","r","e"," ","t","h","r","i","l","l","e","r">>,
    <<" ","d","r","a","m","a"," ","p","h","i","l","o","s","o","p","h","i","c","a","l"," ","t","h","o","u","g","h","t","-","p","r","o","v","o","k","i","n","g">>,
    <<" ","r","o","m","a","n","c","e"," ","l","o","v","e"," ","s","t","o","r","y"," ","r","o","m","a","n","t","i","c"," ","c","o","m","e","d","y">>>>

\* the filter set the four passes give on the text
ExpectedFilters(text) ==
    ExpectedYear(text) @@ ExpectedGenre(text) @@ ExpectedLanguage(text)
        @@ ExpectedContentType(text)

\* C17: when a mood word occurs as a whole word in the raw query, the terms of
\* the first matching mood, in mapping order, are appended to the returned
\* query and nothing is added to the filters: the filter set is the one the
\* raw query alone gives ("something scary": no filter, and a query that
\* contains horror, thriller and suspense).
C17_MoodExpansion ==
    Extracted =>
        /\ FirstInOrder(MoodOrder, call.query) # 0 =>
               /\ response.value.query =
                      call.query \o MoodSuffix[FirstInOrder(MoodOrder, call.query)]
               /\ response.value.filters = ExpectedFilters(call.query)
        /\ call.query = RQ_SomethingScary =>
               /\ DOMAIN response.value.filters = {}
               /\ Contains(response.value.query, <<"h","o","r","r","o","r">>)
               /\ Contains(response.value.query, <<"t","h","r","i","l","l","e","r">>)
               /\ Contains(response.value.query, <<"s","u","s","p","e","n","s","e">>)

\* a mood whose appended terms hold a genre keyword the raw query does not
C17_Witness ==
    /\ Extracted
    /\ FirstInOrder(MoodOrder, call.query) # 0
    /\ ExpectedGenre(response.value.query) # <<>>
    /\ ExpectedGenre(call.query) = <<>>
    /\ "genre" \notin DOMAIN response.value.filters
    /\ Len(response.value.query) > Len(call.query)

\* the raw query holds nothing any of the five passes looks for
NothingToExtract(text) ==
    /\ YearTokens(text) = {}
    /\ FirstInOrder(GenreOrder, text) = 0
    /\ FirstInOrder(Names(RegionOrder), text) = 0
    /\ FirstInOrder(Names(ContentTypeOrder), text) = 0
    /\ FirstInOrder(MoodOrder, text) = 0

\* C18: for a raw query with no year token, genre keyword, region name,
\* content-type phrase or mood word, extract_keywords_from_query returns the
\* query unchanged and an empty filter set, and no error.
C18_NoMatchInterpretation ==
    (Extracted /\ NothingToExtract(call.query)) =>
        /\ response.kind = "extracted"
        /\ response.value.query = call.query
        /\ DOMAIN response.value.filters = {}

\* a query of capitalised words that names nothing the passes look for comes
\* back as it was given
C18_Witness ==
    /\ Extracted
    /\ NothingToExtract(call.query)
    /\ call.query # <<>>
    /\ StrLower(call.query) # call.query
    /\ response.value = [query |-> call.query, filters |-> <<>>]

(***************************************************************************)
(* The endpoint's claim, C11.                                              *)
(***************************************************************************)
Answered == pc = "returned" /\ call.op = "recommend" /\ response.kind = "recommend"

\* C11: in the recommend endpoint every one of year, genre, language and
\* content_type present in the request has the request's value in the
\* effective filters, whatever interpretation derived; every interpreted
\* field not in the request keeps its interpreted value; the resulting set is
\* the one passed to ranking and the one reported as filters_applied.
C11_ExplicitOverride ==
    Answered =>
        LET interpreted == extract_keywords_from_query(call.data.query).filters
            effective == response.filters_applied
        IN  /\ \A k \in {"year", "genre", "language", "content_type"} :
                  k \in DOMAIN call.data =>
                      k \in DOMAIN effective /\ effective[k] = call.data[k]
            /\ \A k \in DOMAIN interpreted \ DOMAIN call.data :
                  k \in DOMAIN effective /\ effective[k] = interpreted[k]
            /\ DOMAIN effective \subseteq DOMAIN interpreted \cup DOMAIN call.data
            /\ response.recommendations =
                   recommend_movies(response.enhanced_query,
                                    GetOr(call.data, "n", 10), effective)

\* a request whose explicit year replaces another interpreted year while an
\* interpreted field it does not name survives, and the ranking under the
\* effective filters differs from the ranking under the interpreted ones
C11_Witness ==
    /\ Answered
    /\ "year" \in DOMAIN call.data
    /\ LET interpreted == extract_keywords_from_query(call.data.query).filters
       IN  /\ "year" \in DOMAIN interpreted
           /\ interpreted.year # call.data.year
           /\ response.filters_applied.year = call.data.year
           /\ \E k \in DOMAIN interpreted \ DOMAIN call.data :
                 response.filters_applied[k] = interpreted[k]
           /\ response.recommendations #
                  recommend_movies(response.enhanced_query,
                                   GetOr(call.data, "n", 10), interpreted)

(***************************************************************************)
(* The index and the catalog, C19.                                         *)
(***************************************************************************)
\* a query can start: the construction is over and no call is under way
Serving == pc = "ready"

\* one row per catalog entry, row i being the vector of entry i's document
Aligned ==
    /\ Len(tfidf_matrix) = Len(movies)
    /\ \A i \in 1..Len(movies) :
          tfidf_matrix[i] =
              Transform(vectorizer, _preprocess_text(movies[i].document))

\* a step taken once the index is built leaves the catalog and the index alone
CatalogFrozen ==
    pc \in {"ready", "returned"} =>
        /\ movies' = movies
        /\ tfidf_matrix' = tfidf_matrix
        /\ vectorizer' = vectorizer

\* C19: in every state in which a query can run the index has exactly one row
\* per catalog entry, row i built from the document of the entry at position
\* i; no operation after the build appends to, removes from or reorders the
\* catalog without rebuilding the index.
C19_IndexCatalogAlignment == [](Serving => Aligned) /\ [][CatalogFrozen]_vars

\* the build has run on a catalog whose first and last entries have different
\* rows, so that an exchange of rows would show
C19_Witness ==
    /\ Serving
    /\ Len(movies) >= 2
    /\ tfidf_matrix[1] # tfidf_matrix[Len(movies)]
    /\ Aligned

(***************************************************************************)
(* The concurrent requests, C12 and C20.                                   *)
(***************************************************************************)
\* thread t holds the answer of a call of recommend_movies
Ranked(t) == threads[t].pc = "done" /\ threads[t].response.kind = "recommend"

\* the two threads called recommend_movies with the same query, n and filters
SameCall(t, u) ==
    /\ threads[t].query = threads[u].query
    /\ threads[t].n = threads[u].n
    /\ threads[t].filters = threads[u].filters

\* C12: for a fixed catalog and index two calls of recommend_movies with the
\* same query, n and filters return identical ordered sequences (ids, order,
\* scores), also when other queries run between or beside them.
C12_Determinism ==
    \A t, u \in Threads :
        (Ranked(t) /\ Ranked(u) /\ SameCall(t, u)) =>
            threads[t].response.recommendations = threads[u].response.recommendations

\* two threads made the same call and both answers begin with two entries of
\* equal score, whose order is the sort's to choose
C12_Witness ==
    \E t, u \in Threads :
        /\ t # u /\ Ranked(t) /\ Ranked(u) /\ SameCall(t, u)
        /\ Len(threads[t].response.recommendations) >= 2
        /\ threads[t].response.recommendations[1].similarity_score
               = threads[t].response.recommendations[2].similarity_score
        /\ threads[t].response.recommendations[1].id
               # threads[t].response.recommendations[2].id

\* what the request returns when it is the only one the server runs
ServedAlone(request) ==
    CASE request.op = "recommend" -> recommend(request.data)
      [] request.op = "get_movie" -> get_movie(request.movie_id)
      [] request.op = "get_filters" -> get_filters
      [] request.op = "get_stats" -> get_stats

ResultAsAlone ==
    \A t \in Threads :
        threads[t].pc = "done" => threads[t].response = ServedAlone(threads[t].request)

\* a step of the serving process writes none of the shared objects
SharedReadOnly ==
    pc = "ready" =>
        /\ movies' = movies
        /\ tfidf_matrix' = tfidf_matrix
        /\ vectorizer' = vectorizer

\* C20: the query operations never write the shared catalog, the TF-IDF
\* matrix or the vectorizer, so under any interleaving of concurrent requests
\* every request's result equals the result it returns when run alone.
C20_ReadOnlyQueryPath == []ResultAsAlone /\ [][SharedReadOnly]_vars

\* one thread holds a non-empty ranking while the other, serving another
\* request, has applied a filter mask that clears scores and not yet selected
C20_Witness ==
    \E t, u \in Threads :
        /\ Ranked(t)
        /\ threads[t].response.recommendations # <<>>
        /\ threads[u].pc = "select"
        /\ threads[u].request # threads[t].request
        /\ \E i \in 1..Len(movies) :
              /\ threads[u].cosine_similarities[i] = 0
              /\ CosineSimilarity(Transform(vectorizer,
                                            _preprocess_text(threads[u].query)),
                                  tfidf_matrix)[i] > 0

(***************************************************************************)
(* The claims C21 to C30.                                                  *)
(***************************************************************************)
\* the terms the analyzer finds in the normalized text of query
QueryTerms(query) == Range(Analyze(_preprocess_text(query)))

\* the normalized text of query holds no term of the index vocabulary
NoKnownTerm(query) == QueryTerms(query) \cap vectorizer.vocabulary = {}

\* C22: empty query vector: a query whose normalized text contains no term of
\* the index vocabulary has zero similarity with every document, and
\* recommend_movies returns the empty sequence for it, for every n and every
\* filter set
C22_EmptyQueryVector ==
    (Recommended /\ NoKnownTerm(call.query)) =>
        LET scores == CosineSimilarity(
                          Transform(vectorizer, _preprocess_text(call.query)),
                          tfidf_matrix)
        IN  /\ \A i \in 1..Len(scores) : scores[i] = 0
            /\ response.value = <<>>

\* a call on a non-empty catalog with n >= 1 and a filter that some entry
\* satisfies, for a query that normalizes to terms none of which is indexed
C22_Witness ==
    /\ Recommended /\ NoKnownTerm(call.query)
    /\ QueryTerms(call.query) # {}
    /\ call.n >= 1
    /\ DOMAIN call.filters # {}
    /\ _apply_filters(movies, call.filters) # <<>>
    /\ response.value = <<>>

\* C28: uniform effective year: an entry satisfies the filter year = y iff it
\* satisfies the filter time_period = [y, y], whatever its date
C28_UniformEffectiveYear ==
    (Filtered /\ DOMAIN call.filters = {"year"}) =>
        response.value =
            _apply_filters(movies,
                [time_period |-> <<call.filters.year, call.filters.year>>])

\* the score of every entry after the masking the filter set asks for: an entry
\* the filter evaluator excludes scores zero
ScoresAfterMasking(query, filters) ==
    LET scores == CosineSimilarity(Transform(vectorizer, _preprocess_text(query)),
                                   tfidf_matrix)
    IN  [i \in 1..Len(scores) |->
            IF DOMAIN filters = {} \/ Include(movies[i], filters)
            THEN scores[i] ELSE 0]

\* C29: top-N completeness: for n >= 1 recommend_movies returns exactly
\* min(n, k) results, k the number of entries whose score after filter masking
\* is above zero; every returned score is positive, no entry is returned twice,
\* and no omitted entry has a higher masked score than a returned one
C29_TopNCompleteness ==
    (Recommended /\ call.n >= 1) =>
        LET masked == ScoresAfterMasking(call.query, call.filters)
            value == response.value
            k == Cardinality({i \in 1..Len(masked) : masked[i] > 0})
            returned == {PositionOf(value[j]) : j \in 1..Len(value)}
        IN  /\ Len(value) = Min(call.n, k)
            /\ \A j \in 1..Len(value) : value[j].similarity_score > 0
            /\ Cardinality(returned) = Len(value)
            /\ \A i \in (1..Len(masked)) \ returned :
                   \A j \in 1..Len(value) :
                       masked[i] <= value[j].similarity_score

Preprocessed == pc = "returned" /\ call.op = "_preprocess_text"

\* C23: normalizer idempotence: a second pass of _preprocess_text leaves the
\* output of the first unchanged; the output holds no upper-case letter,
\* punctuation, digit or stop word, each of its tokens is its own lemma, and an
\* empty or missing input gives the empty string
C23_NormalizerIdempotence ==
    Preprocessed =>
        LET out == response.value
            tokens == WordTokenize(out)
        IN  /\ _preprocess_text(out) = out
            /\ \A i \in 1..Len(out) :
                   /\ ~IsUpper(out[i]) /\ ~IsDigit(out[i])
                   /\ IsLetter(out[i]) \/ IsSpace(out[i])
            /\ \A i \in 1..Len(tokens) :
                   tokens[i] \notin StopWords /\ Lemmatize(tokens[i]) = tokens[i]
            /\ ~Truthy(call.text) => out = <<>>

\* the catalog positions whose entry has no document
Undocumented == {i \in 1..Len(movies) : "document" \notin DOMAIN movies[i]}

\* C24: build tolerance: when a catalog entry has no document the index build
\* does not abort: it skips the entry and indexes all the others
C24_BuildTolerance ==
    Undocumented # {} =>
        /\ pc # "crashed"
        /\ pc \in {"ready", "returned"} =>
               Len(tfidf_matrix) = Len(movies) - Cardinality(Undocumented)

\* C25: ranking tolerance: when a selected entry lacks an expected field the
\* pass substitutes an empty value or omits the field and returns the complete
\* ranked list: one result for every selected entry, never an abort
C25_RankingTolerance ==
    Recommended =>
        /\ response.kind = "recommendations"
        /\ Len(response.value)
               = Len(Selected(call.query, call.n, call.filters).kept)

Built == pc \in {"ready", "returned"}

\* no request is in progress or answered unless the index exists, and it
\* exists only when every step of the acquisition is over
BuiltBeforeServing ==
    /\ (call # NoCall \/ response # NoResponse) => Built
    /\ (Built \/ pc = "loaded") => fetch = NoFetch

\* in one run the index is built in one step, from the loaded state; once it
\* exists, the catalog, the seen ids, the data file and the index stay as they are
BuiltOnceAtTheEnd ==
    /\ (~Built /\ Built') => (pc = "loaded" /\ pc' = "ready" /\ movies' = movies)
    /\ (Built /\ pc' # "init") =>
           /\ Built'
           /\ movies' = movies
           /\ unique_movie_ids' = unique_movie_ids
           /\ data_file' = data_file
           /\ fetch' = fetch
           /\ vectorizer' = vectorizer
           /\ tfidf_matrix' = tfidf_matrix

\* C26: startup ordering: no query is served before the index build has
\* completed; in every run the index is built once, after every load and fetch
\* step has finished, and no fetch or catalog change follows the build
C26_StartupOrdering == []BuiltBeforeServing /\ [][BuiltOnceAtTheEnd]_vars

\* a request answered from a catalog of three entries, movies and a show, that
\* the acquisition gathered and saved
C26_Witness ==
    /\ pc = "returned" /\ call.op = "get_movie" /\ response.kind = "movie"
    /\ Len(movies) = 3
    /\ \E i \in 1..Len(movies) : movies[i].content_type = Tv
    /\ data_file = File(movies)

\* C27: acquisition termination: the full fetch eventually finishes and yields
\* a catalog, whatever the provider answers, also when it keeps answering a
\* page request with a non-200 status or an exception
C27_AcquisitionTermination == (pc = "fetching") ~> (pc = "loaded")

\* a step of the candidate loop of _process_movie_results
CandidateStep ==
    /\ pc = "fetching" /\ pc' = "fetching"
    /\ fetch.at = "process" /\ fetch'.at = "process"
    /\ fetch.results # <<>> /\ fetch'.results = Tail(fetch.results)
    /\ Head(fetch.plan).kind = Movie

\* what the step does to the catalog and to the seen ids, by the candidate's case
FetchStepFrame ==
    LET movie_id == Head(fetch.results).id
        seen == movie_id = 0 \/ movie_id \in unique_movie_ids
    IN  /\ fetch'.last \in {"skipped", "no_details", "raised", "added"}
        /\ seen <=> fetch'.last = "skipped"
        /\ fetch'.last = "skipped" =>
               movies' = movies /\ unique_movie_ids' = unique_movie_ids
        /\ fetch'.last \in {"no_details", "raised"} =>
               /\ movies' = movies /\ unique_movie_ids' = unique_movie_ids
               /\ movie_id \notin unique_movie_ids'
        /\ fetch'.last = "added" =>
               /\ Len(movies') = Len(movies) + 1
               /\ SubSeq(movies', 1, Len(movies)) = movies
               /\ movies'[Len(movies')].id = movie_id
               /\ unique_movie_ids' = unique_movie_ids \cup {movie_id}

\* C30: fetch step frame: in _process_movie_results a candidate whose id is
\* falsy or seen causes no detail fetch and no change; one whose detail fetch
\* fails leaves the catalog and the seen ids unchanged, so that its id stays
\* eligible; a successful one appends exactly one entry at the end of the
\* catalog and adds exactly its id to the seen ids
C30_FetchStepFrame == [][CandidateStep => FetchStepFrame]_vars

\* the catalog holds an entry, and the id 155, whose detail fetch failed earlier
\* in this page, is the next candidate again and still unseen
C30_Witness ==
    /\ pc = "fetching" /\ fetch.at = "process"
    /\ Head(fetch.plan).kind = Movie
    /\ fetch.last = "skipped"
    /\ fetch.results = <<[id |-> 155]>>
    /\ 155 \notin unique_movie_ids
    /\ movies # <<>>

====
